---- MODULE Spec2Model ----
(***************************************************************************)
(* Model of the CAENels FAST-PS gateway (UdpServer.c, OpcUaServer.c).      *)
(*                                                                         *)
(* Spec is the UDP responder of UdpServer.c: its main loop, the device     *)
(* exchange TcpSendReceive over the TCP connection, and the assembly of    *)
(* the response packet.  Text is modelled as sequences of one-character    *)
(* strings, buffers as sequences of bytes.                                 *)
(***************************************************************************)
EXTENDS Integers, Sequences, FiniteSets, TLC

(***************************************************************************)
(* Program constants                                                       *)
(***************************************************************************)
BUFSIZE == 80
UDPPORT == 16665
UDPBUFLEN == 256
CONTROLSIZE == 24
CONTROLMAGIC == 1280664899
RESPONSESIZE == 36
IPHDRSIZE == 20
UDPHDRSIZE == 8
IPPROTO_UDP == 17

(***************************************************************************)
(* Bounds of the model                                                     *)
(***************************************************************************)
MaxDatagrams == 2
MaxFaults == 1

(***************************************************************************)
(* Text                                                                    *)
(***************************************************************************)
NUL == "NUL"
CR == "\r"
LF == "\n"
CRLF == <<CR, LF>>

DigitChars == <<"0", "1", "2", "3", "4", "5", "6", "7", "8", "9">>
HexChars == <<"0", "1", "2", "3", "4", "5", "6", "7", "8", "9",
              "a", "b", "c", "d", "e", "f">>
HexUpper == <<"0", "1", "2", "3", "4", "5", "6", "7", "8", "9",
              "A", "B", "C", "D", "E", "F">>

IsDigit(c) == \E i \in 1..10 : DigitChars[i] = c
DigitVal(c) == (CHOOSE i \in 1..10 : DigitChars[i] = c) - 1
IsHex(c) == \E i \in 1..16 : HexChars[i] = c \/ HexUpper[i] = c
HexVal(c) == (CHOOSE i \in 1..16 : HexChars[i] = c \/ HexUpper[i] = c) - 1
IsSpace(c) == c \in {" ", "\t", CR, LF}

Min(a, b) == IF a < b THEN a ELSE b
Max(a, b) == IF a > b THEN a ELSE b

RECURSIVE Spaces(_)
Spaces(n) == IF n <= 0 THEN << >> ELSE <<" ">> \o Spaces(n - 1)

\* decimal digits of a natural number, no leading zeros ("%d")
RECURSIVE NatText(_)
NatText(n) ==
    IF n < 10 THEN <<DigitChars[n + 1]>>
    ELSE NatText(n \div 10) \o <<DigitChars[(n % 10) + 1]>>

\* decimal digits of n, zero-padded on the left to w digits
RECURSIVE PadText(_, _)
PadText(n, w) ==
    IF w = 0 THEN << >>
    ELSE PadText(n \div 10, w - 1) \o <<DigitChars[(n % 10) + 1]>>

\* the C string starting at byte offset off of buf (up to, not including,
\* the first NUL; the buffers of the model always hold one)
RECURSIVE CStrFrom(_, _)
CStrFrom(buf, off) ==
    IF off >= Len(buf) \/ buf[off + 1] = NUL THEN << >>
    ELSE <<buf[off + 1]>> \o CStrFrom(buf, off + 1)

RECURSIVE SkipSpace(_)
SkipSpace(s) == IF s # << >> /\ IsSpace(Head(s)) THEN SkipSpace(Tail(s)) ELSE s

(***************************************************************************)
(* sscanf conversions and the arithmetic of the response fields            *)
(***************************************************************************)
INT_MAX == 2147483647
INT_MIN == (0 - 2147483647) - 1

RECURSIVE HexRun(_)
HexRun(s) ==
    IF s # << >> /\ IsHex(Head(s)) THEN <<HexVal(Head(s))>> \o HexRun(Tail(s)) ELSE << >>

\* the unsigned 32-bit number with the hex digits hs (at most 8), in memory
HexBytes(hs) ==
    LET d(i) == IF i <= 8 - Len(hs) THEN 0 ELSE hs[i - (8 - Len(hs))]
    IN  <<d(7) * 16 + d(8), d(5) * 16 + d(6), d(3) * 16 + d(4), d(1) * 16 + d(2)>>

\* the negation modulo 2^32 of the number held by the four bytes bs
NegBytes(bs) ==
    LET c1 == IF bs[1] = 0 THEN 1 ELSE 0
        c2 == IF c1 = 1 /\ bs[2] = 0 THEN 1 ELSE 0
        c3 == IF c2 = 1 /\ bs[3] = 0 THEN 1 ELSE 0
    IN  <<(256 - bs[1]) % 256, (255 - bs[2] + c1) % 256,
          (255 - bs[3] + c2) % 256, (255 - bs[4] + c3) % 256>>

\* sscanf(text, "%x", &u): leading white space, an optional sign, an
\* optional "0x", then hex digits; val is u in memory, ok is FALSE when no
\* conversion takes place (u is left untouched).  The texts of the model
\* carry at most 8 hex digits.
ScanHex(text) ==
    LET s == SkipSpace(text)
        neg == s # << >> /\ Head(s) = "-"
        u == IF s # << >> /\ Head(s) \in {"-", "+"} THEN Tail(s) ELSE s
        t == IF Len(u) >= 3 /\ u[1] = "0" /\ u[2] \in {"x", "X"} /\ IsHex(u[3])
             THEN SubSeq(u, 3, Len(u)) ELSE u
        hs == HexRun(t)
    IN  [ok |-> Len(hs) > 0,
         val |-> IF neg THEN NegBytes(HexBytes(hs)) ELSE HexBytes(hs)]

RECURSIVE DigitRun(_)
DigitRun(s) ==
    IF s # << >> /\ IsDigit(Head(s))
    THEN <<DigitVal(Head(s))>> \o DigitRun(Tail(s)) ELSE << >>

RECURSIVE DigitsNat(_, _)
DigitsNat(ds, acc) ==
    IF ds = << >> THEN acc ELSE DigitsNat(Tail(ds), acc * 10 + Head(ds))

\* sscanf(text, "%lf", &x): leading white space, an optional sign, digits
\* with an optional fraction.  The number is kept exactly: sign, integer
\* part and the sequence of fraction digits.  ok is FALSE when no
\* conversion takes place (x is left untouched).
ScanDouble(text) ==
    LET s == SkipSpace(text)
        neg == s # << >> /\ Head(s) = "-"
        t == IF s # << >> /\ Head(s) \in {"-", "+"} THEN Tail(s) ELSE s
        ip == DigitRun(t)
        u == SubSeq(t, Len(ip) + 1, Len(t))
        fp == IF u # << >> /\ Head(u) = "." THEN DigitRun(Tail(u)) ELSE << >>
    IN  [ok |-> Len(ip) + Len(fp) > 0, neg |-> neg,
         units |-> DigitsNat(ip, 0), frac |-> fp]

\* a double holding the exact decimal number sign units.frac
Dbl(neg, units, frac) == [neg |-> neg, units |-> units, frac |-> frac]

\* round(1e6 * x): to the nearest integer of micro-units, halves away from
\* zero, kept as sign, units and micro part (the value may exceed 32 bits)
RoundMicro(x) ==
    LET d(i) == IF i <= Len(x.frac) THEN x.frac[i] ELSE 0
        m == d(1) * 100000 + d(2) * 10000 + d(3) * 1000 + d(4) * 100 + d(5) * 10 + d(6)
        up == IF d(7) >= 5 THEN m + 1 ELSE m
    IN  [neg |-> x.neg,
         units |-> IF up = 1000000 THEN x.units + 1 ELSE x.units,
         micro |-> IF up = 1000000 THEN 0 ELSE up]

FitsInt32(r) ==
    \/ r.units < 2147
    \/ r.units = 2147 /\ r.micro <= (IF r.neg THEN 483648 ELSE 483647)

MicroInt(r) ==
    IF r.neg THEN (0 - r.units * 1000000) - r.micro
    ELSE r.units * 1000000 + r.micro

\* the micro-unit number of a 32-bit integer, as sign, units and micro part
IntMicro(v) ==
    IF v >= 0 THEN [neg |-> FALSE, units |-> v \div 1000000, micro |-> v % 1000000]
    ELSE LET a == 0 - (v + 1)
             m == (a % 1000000) + 1
         IN  [neg |-> TRUE,
              units |-> IF m = 1000000 THEN (a \div 1000000) + 1 ELSE a \div 1000000,
              micro |-> IF m = 1000000 THEN 0 ELSE m]

\* (int)d for a double d holding an integer: the value when it fits in 32
\* bits; otherwise the conversion is undefined and yields what the
\* hardware's conversion does: INT_MIN (x86) or the saturated value (ARM)
CastInt(r) ==
    IF FitsInt32(r) THEN {MicroInt(r)}
    ELSE {INT_MIN, IF r.neg THEN INT_MIN ELSE INT_MAX}

\* an int64_t number of micro-units: sign, units and micro part
Micro(neg, units, micro) == [neg |-> neg, units |-> units, micro |-> micro]

\* (mutant: the format "%.6f", without the field width)
Fmt96f_NoWidth(v) ==
    (IF v.neg /\ v.units + v.micro > 0 THEN <<"-">> ELSE << >>)
        \o NatText(v.units) \o <<".">> \o PadText(v.micro, 6)

\* sprintf("%lf", 1.0e-6 * v): fixed notation with six decimals
Fmt6f(v) ==
    (IF v.neg /\ v.units + v.micro > 0 THEN <<"-">> ELSE << >>)
        \o NatText(v.units) \o <<".">> \o PadText(v.micro, 6)

\* sprintf("%9.6f", 1.0e-6 * v) for a setpoint v in micro-units: fixed
\* notation with six decimals, padded with spaces on the left to 9 characters
Fmt96f(v) ==
    LET body == (IF v.neg /\ v.units + v.micro > 0 THEN <<"-">> ELSE << >>)
                 \o NatText(v.units) \o <<".">> \o PadText(v.micro, 6)
    IN  Spaces(9 - Len(body)) \o body

(***************************************************************************)
(* Bytes (little-endian target)                                            *)
(***************************************************************************)
Byte(v, k) == (v \div (IF k = 0 THEN 1 ELSE IF k = 1 THEN 256
                       ELSE IF k = 2 THEN 65536 ELSE 16777216)) % 256

\* uint32_t / uint16_t in memory
U32LE(v) == <<Byte(v, 0), Byte(v, 1), Byte(v, 2), Byte(v, 3)>>
U16LE(v) == <<Byte(v, 0), Byte(v, 1)>>
\* htons(v) in memory
U16BE(v) == <<Byte(v, 1), Byte(v, 0)>>
\* an int converted to int64_t, in memory (sign extension)
I64LE(v) ==
    LET s == IF v < 0 THEN 255 ELSE 0
    IN  <<Byte(v, 0), Byte(v, 1), Byte(v, 2), Byte(v, 3), s, s, s, s>>

\* buf with the bytes bs stored at byte offset off
Poke(buf, off, bs) ==
    [i \in 1..Len(buf) |->
        IF i > off /\ i <= off + Len(bs) THEN bs[i - off] ELSE buf[i]]

Peek(buf, off, n) == SubSeq(buf, off + 1, off + n)

Fill(n, b) == [i \in 1..n |-> b]

(***************************************************************************)
(* Checksum                                                                *)
(***************************************************************************)
RECURSIVE WordSum(_, _, _)
\* the while loop of csum: the sum of the 16-bit words of mem starting at
\* byte offset off while more than one byte is left, then the odd byte
\* (a long run of words is summed in two halves)
WordSum(mem, off, n) ==
    IF n > 3
    THEN LET h == 2 * (n \div 4)
         IN  WordSum(mem, off, h) + WordSum(mem, off + h, n - h)
    ELSE IF n > 1
    THEN mem[off + 1] + 256 * mem[off + 2] + WordSum(mem, off + 2, n - 2)
    ELSE IF n = 1 THEN mem[off + 1] ELSE 0

\* (mutant: the sum is folded once)
csum_OneFold(mem, n) ==
    LET sum0 == WordSum(mem, 0, n)
        sum1 == (sum0 \div 65536) + (sum0 % 65536)
    IN  65535 - (sum1 % 65536)

csum(mem, n) ==
    LET sum0 == WordSum(mem, 0, n)
        sum1 == (sum0 \div 65536) + (sum0 % 65536)
        sum2 == sum1 + (sum1 \div 65536)
    IN  65535 - (sum2 % 65536)

(***************************************************************************)
(* The device at the other end of the TCP connection (the controller's     *)
(* ASCII server): it answers a command line with "#" and the echo of the   *)
(* verb, ":" and data, with "#AK" for an accepted write, or "#NAK:<code>". *)
(***************************************************************************)
RECURSIVE HexText(_, _)
HexText(v, w) ==
    IF w = 0 THEN << >> ELSE HexText(v \div 16, w - 1) \o <<HexChars[(v % 16) + 1]>>

RECURSIVE DigitsText(_)
DigitsText(ds) ==
    IF ds = << >> THEN << >> ELSE <<DigitChars[Head(ds) + 1]>> \o DigitsText(Tail(ds))

\* the device prints a number in fixed notation with all its decimals
DevNumText(x) ==
    (IF x.neg THEN <<"-">> ELSE << >>) \o NatText(x.units) \o <<".">> \o DigitsText(x.frac)

NAKReply == <<"#", "N", "A", "K", ":", "0", "5">> \o CRLF
AKReply == <<"#", "A", "K">> \o CRLF
ShortReply == CRLF

\* the registers of the device, with numbers of one, two and three digits
DevRegs == {5, 10, 123}

\* the state the device starts in: status word (bit 0: output on),
\* setpoints and readbacks, update mode and registers
DeviceStart ==
    [status |-> 134217730,
     isp |-> Dbl(TRUE, 0, <<2, 5, 0, 0, 0, 0>>),
     usp |-> Dbl(FALSE, 5, <<0, 0, 0, 0, 0, 0>>),
     irb |-> Dbl(FALSE, 1, <<4, 9, 9, 9, 9, 9, 6>>),
     urb |-> Dbl(TRUE, 4, <<9, 8, 7, 6, 5, 4, 4>>),
     sfp |-> FALSE,
     regs |-> [n \in DevRegs |->
                 CASE n = 5 -> Dbl(FALSE, 0, <<2, 5>>)
                   [] n = 10 -> Dbl(FALSE, 2, <<5>>)
                   [] OTHER -> Dbl(TRUE, 100, <<0>>)]]

IsQuery(cmd, verb) == cmd = verb \o CRLF
IsWrite(cmd, verb) ==
    /\ Len(cmd) > Len(verb) + 2
    /\ SubSeq(cmd, 1, Len(verb)) = verb
    /\ cmd[Len(verb) + 1] # "?"
    /\ SubSeq(cmd, Len(cmd) - 1, Len(cmd)) = CRLF

vMST == <<"M", "S", "T">>
vMRI == <<"M", "R", "I">>
vMRV == <<"M", "R", "V">>
vMWIq == <<"M", "W", "I", ":", "?">>
vMWVq == <<"M", "W", "V", ":", "?">>
vMWI == <<"M", "W", "I", ":">>
vMWV == <<"M", "W", "V", ":">>
vUPMODE == <<"U", "P", "M", "O", "D", "E">>
vUPMODEw == <<"U", "P", "M", "O", "D", "E", ":">>
vSFP == <<"S", "F", "P">>
vNORMAL == <<"N", "O", "R", "M", "A", "L">>
vMON == <<"M", "O", "N">>
vMOFF == <<"M", "O", "F", "F">>
vMRESET == <<"M", "R", "E", "S", "E", "T">>
vMRG == <<"M", "R", "G", ":">>
vMWG == <<"M", "W", "G", ":">>

\* the register number a MRG:<n> or MWG:<n>:<value> line names
RegArg(cmd) == DigitsNat(DigitRun(SubSeq(cmd, 5, Len(cmd))), 0)
\* the value a MWG:<n>:<value> line carries
RegValue(cmd) ==
    LET n == Len(DigitRun(SubSeq(cmd, 5, Len(cmd))))
        x == ScanDouble(SubSeq(cmd, 5 + n + 1, Len(cmd)))
    IN  Dbl(x.neg, x.units, x.frac)
IsRegRead(d, cmd) ==
    /\ IsWrite(cmd, vMRG)
    /\ RegArg(cmd) \in DOMAIN d.regs
    /\ cmd = vMRG \o NatText(RegArg(cmd)) \o CRLF
IsRegWrite(d, cmd) ==
    /\ IsWrite(cmd, vMWG)
    /\ RegArg(cmd) \in DOMAIN d.regs
    /\ Len(cmd) > 4 + Len(NatText(RegArg(cmd))) + 3
    /\ cmd[4 + Len(NatText(RegArg(cmd))) + 1] = ":"
    /\ ScanDouble(SubSeq(cmd, 4 + Len(NatText(RegArg(cmd))) + 2, Len(cmd))).ok

\* the number a write command carries, as the device reads it
WriteArg(cmd, verb) ==
    LET x == ScanDouble(SubSeq(cmd, Len(verb) + 1, Len(cmd)))
    IN  Dbl(x.neg, x.units, x.frac)

\* the regular answer of the device in state d to the command line cmd
DeviceAnswer(d, cmd) ==
    CASE IsQuery(cmd, vMST) -> <<"#">> \o vMST \o <<":">> \o HexText(d.status, 8) \o CRLF
      [] IsQuery(cmd, vMRI) -> <<"#">> \o vMRI \o <<":">> \o DevNumText(d.irb) \o CRLF
      [] IsQuery(cmd, vMRV) -> <<"#">> \o vMRV \o <<":">> \o DevNumText(d.urb) \o CRLF
      [] IsQuery(cmd, vMWIq) -> <<"#">> \o vMWI \o DevNumText(d.isp) \o CRLF
      [] IsQuery(cmd, vMWVq) -> <<"#">> \o vMWV \o DevNumText(d.usp) \o CRLF
      [] IsWrite(cmd, vMWI) -> AKReply
      [] IsWrite(cmd, vMWV) -> AKReply
      [] IsQuery(cmd, vUPMODE) ->
            <<"#">> \o vUPMODEw \o (IF d.sfp THEN vSFP ELSE vNORMAL) \o CRLF
      [] IsRegRead(d, cmd) ->
            <<"#">> \o vMRG \o NatText(RegArg(cmd)) \o <<":">>
                \o DevNumText(d.regs[RegArg(cmd)]) \o CRLF
      [] IsRegWrite(d, cmd) -> AKReply
      [] cmd \in {vMON \o CRLF, vMOFF \o CRLF, vMRESET \o CRLF,
                  vUPMODEw \o vSFP \o CRLF, vUPMODEw \o vNORMAL \o CRLF} -> AKReply
      [] OTHER -> NAKReply

\* the state of the device after it has accepted the command line cmd
DeviceAfter(d, cmd) ==
    CASE IsWrite(cmd, vMWI) -> [d EXCEPT !.isp = WriteArg(cmd, vMWI)]
      [] IsWrite(cmd, vMWV) -> [d EXCEPT !.usp = WriteArg(cmd, vMWV)]
      [] IsRegWrite(d, cmd) -> [d EXCEPT !.regs[RegArg(cmd)] = RegValue(cmd)]
      [] cmd = vMON \o CRLF -> [d EXCEPT !.status = 2 * (d.status \div 2) + 1]
      [] cmd = vMOFF \o CRLF -> [d EXCEPT !.status = 2 * (d.status \div 2)]
      [] cmd = vUPMODEw \o vSFP \o CRLF -> [d EXCEPT !.sfp = TRUE]
      [] cmd = vUPMODEw \o vNORMAL \o CRLF -> [d EXCEPT !.sfp = FALSE]
      [] OTHER -> d

(***************************************************************************)
(* The UDP responder (UdpServer.c)                                         *)
(***************************************************************************)
VARIABLES
    pc,           \* position of main: "while", "recvfrom", "send", "recv",
                  \* "sendto", "exited", "died" (Die), "crashed"; "off"
                  \* when the responder is not looked at
    running,      \* the flag cleared by stopHandler
    command,      \* command string buffer (the C string it holds)
    response,     \* receive buffer, BUFSIZE characters
    conn,         \* the TCP connection: "open", "closed" (by the peer), "reset"
    tcpIn,        \* bytes the device has sent and recv has not yet taken
    dev,          \* state of the device
    step,         \* the exchange of the cycle in progress
    udp_counter,  \* count of received packets
    udp_client,   \* address and port of the last sender
    recv_len,     \* result of the last recvfrom
    in_data,      \* the control_data in udp_buffer
    send_buffer,  \* UDP send packet buffer, UDPBUFLEN bytes
    locals,       \* the doubles isp, usp, irb, urb
    wire,         \* history: what went over the TCP connection since the
                  \* last datagram was taken
    udpOut,       \* history: the packets passed to sendto since then
    taken,        \* history: the datagram taken last
    dgrams,       \* number of datagrams taken so far
    faults        \* the irregular reactions of the device so far: their
                  \* kind and their number

udpVars == <<pc, running, command, response, conn, tcpIn, dev, step, udp_counter,
             udp_client, recv_len, in_data, send_buffer, locals, wire, udpOut,
             taken, dgrams, faults>>

\* a call of csum on its own
VARIABLES
    ptr,          \* the memory csum is given, UDPBUFLEN bytes
    nbytes,       \* the number of bytes to sum
    answer        \* the value returned, -1 before the call has returned

csumVars == <<ptr, nbytes, answer>>

\* no call of csum on its own is looked at
CsumOff == ptr = << >> /\ nbytes = 0 /\ answer = 0 - 1

\* the OPC UA server (OpcUaServer.c)
VARIABLES
    ua_pc,        \* position of the server: "connect", "load" (the loop
                  \* over the <register> elements), "run" (UA_Server_run
                  \* between two requests), "send", "recv" (in
                  \* TcpSendReceive), "exited", "died"; "off" when the
                  \* server is not looked at
    ua_running,   \* running
    ua_command,   \* command
    ua_response,  \* response
    ua_conn,      \* the TCP connection of sock: "none", "open", "closed",
                  \* "reset"
    ua_tcpIn,     \* bytes the device has sent and recv has not yet taken
    ua_late,      \* bytes of the device that arrive after the receive in
                  \* progress has returned
    ua_op,        \* the callback in progress, or the last one
    ua_result,    \* what the last callback returned
    ua_wire,      \* history: what went over the connection in this callback
    ua_calls,     \* number of requests so far
    ua_faults,    \* irregular reactions of the device so far
    registers,    \* the numbers of the <register> elements of the
                  \* configuration file, in their order
    RegNr,        \* the register number table, as far as it is filled
    loopindex     \* loopindex

uaVars == <<ua_pc, ua_running, ua_command, ua_response, ua_conn, ua_tcpIn,
            ua_late, ua_op, ua_result, ua_wire, ua_calls, ua_faults,
            registers, RegNr, loopindex>>

\* what does not belong to the UDP responder
notUdp == <<csumVars, uaVars>>

vars == <<udpVars, csumVars, uaVars>>

PAYLOAD == IPHDRSIZE + UDPHDRSIZE
TOTLEN == IPHDRSIZE + UDPHDRSIZE + RESPONSESIZE

\* udp_server: INADDR_ANY, port UDPPORT in network byte order
udp_server == [addr |-> <<0, 0, 0, 0>>, port |-> U16BE(UDPPORT)]

\* the senders of datagrams
ClientA == [addr |-> <<192, 168, 0, 10>>, port |-> U16BE(40000)]
ClientB == [addr |-> <<10, 0, 0, 7>>, port |-> U16BE(5001)]

Datagram(len, magic, set, cs, vs, from) ==
    [len |-> len, from |-> from,
     data |-> [magic |-> magic, set |-> set,
               current_setpoint |-> cs, voltage_setpoint |-> vs]]

NoDatagram ==
    Datagram(0 - 1, 0, 0, Micro(FALSE, 0, 0), Micro(FALSE, 0, 0),
             [addr |-> <<0, 0, 0, 0>>, port |-> <<0, 0>>])

\* the datagrams that arrive: well-formed ones with and without the set
\* flag, one with a wrong magic, a short and a long one
Datagrams ==
    { Datagram(CONTROLSIZE, CONTROLMAGIC, 0,
               Micro(FALSE, 2, 0), Micro(FALSE, 7, 500000), ClientA),
      Datagram(CONTROLSIZE, CONTROLMAGIC, 1,
               Micro(FALSE, 1, 500000), Micro(FALSE, 5, 0), ClientB),
      Datagram(CONTROLSIZE, CONTROLMAGIC, 2,
               Micro(TRUE, 0, 250000), Micro(FALSE, 3000, 1), ClientA),
      Datagram(CONTROLSIZE, CONTROLMAGIC + 1, 1,
               Micro(FALSE, 1, 500000), Micro(FALSE, 5, 0), ClientB),
      Datagram(CONTROLSIZE - 8, CONTROLMAGIC, 1,
               Micro(FALSE, 1, 500000), Micro(FALSE, 0, 0), ClientA),
      Datagram(CONTROLSIZE + 8, CONTROLMAGIC, 1,
               Micro(FALSE, 1, 500000), Micro(FALSE, 5, 0), ClientB) }

\* what the uninitialized locals of main (udp_counter, send_buffer and the
\* doubles isp, usp, irb, urb) may hold when the loop is entered: a stack
\* of zero bytes, or one that earlier calls have written
UninitStacks ==
    { [udp_counter |-> 0, byte |-> 0, dbl |-> Dbl(FALSE, 0, << >>)],
      [udp_counter |-> 65535, byte |-> 170, dbl |-> Dbl(FALSE, 7, << >>)] }

\* the UA_DataValue handed to a write callback, as far as the callback
\* looks at it: hasValue, whether the variant is a scalar, the type of the
\* variant and whether its data pointer is set
Data(hasValue, isScalar, type, data) ==
    [hasValue |-> hasValue, isScalar |-> isScalar, type |-> type, data |-> data]

\* the type the write callback of a variable compares the variant with
DeclaredType(var) ==
    IF var \in {"OutputOn", "MReset", "ModeSFP"} THEN "BOOLEAN" ELSE "DOUBLE"

\* (mutant: the type of the variant is not compared)
ValidData_AnyType(var, d) == d.hasValue /\ d.isScalar /\ d.data
\* the test every write callback begins with
ValidData(var, d) ==
    d.hasValue /\ d.isScalar /\ d.type = DeclaredType(var) /\ d.data

\* data that do not pass: no value, an array, a scalar of another type,
\* an empty variant
InvalidData(var) ==
    {Data(FALSE, TRUE, DeclaredType(var), TRUE),
     Data(TRUE, FALSE, DeclaredType(var), TRUE),
     Data(TRUE, TRUE, IF DeclaredType(var) = "DOUBLE" THEN "BOOLEAN" ELSE "DOUBLE", TRUE),
     Data(TRUE, FALSE, DeclaredType(var), FALSE)}

\* a callback and its arguments: the kind of access, the variable, the
\* register number its node context points to, the data handed to a write
\* and, when they pass the test, the value they hold
Op(kind, var, index, data, flag, val) ==
    [kind |-> kind, var |-> var, index |-> index, data |-> data,
     flag |-> flag, val |-> val]
NoOp == Op("none", "none", 0, Data(FALSE, FALSE, "none", FALSE), FALSE, Micro(FALSE, 0, 0))

\* what a callback hands back: the status code and, when hasValue is set,
\* the value: a boolean, a 32-bit word or a double
Result(status, hasValue, b, w, d) ==
    [status |-> status, hasValue |-> hasValue, b |-> b, w |-> w, d |-> d]
NoResult == Result("none", FALSE, FALSE, <<0, 0, 0, 0>>, Dbl(FALSE, 0, << >>))

\* the OPC UA server is not looked at
UaOff ==
    /\ ua_pc = "off"
    /\ ua_running = FALSE
    /\ ua_command = << >>
    /\ ua_response = Fill(BUFSIZE, NUL)
    /\ ua_conn = "none"
    /\ ua_tcpIn = << >>
    /\ ua_late = << >>
    /\ ua_op = NoOp
    /\ ua_result = NoResult
    /\ ua_wire = << >>
    /\ ua_calls = 0
    /\ ua_faults = [kind |-> "none", n |-> 0]
    /\ registers = << >>
    /\ RegNr = << >>
    /\ loopindex = 0

Init ==
    /\ pc = "while"
    /\ running = TRUE
    /\ command = << >>
    /\ response = Fill(BUFSIZE, NUL)
    /\ conn = "open"
    /\ tcpIn = << >>
    /\ dev = DeviceStart
    /\ step = "none"
    /\ \E u \in UninitStacks :
        /\ udp_counter = u.udp_counter
        /\ send_buffer = Fill(UDPBUFLEN, u.byte)
        /\ locals = [s \in {"MWIq", "MWVq", "MRI", "MRV"} |-> u.dbl]
    /\ udp_client = NoDatagram.from
    /\ recv_len = 0
    /\ in_data = NoDatagram.data
    /\ wire = << >>
    /\ udpOut = << >>
    /\ taken = NoDatagram
    /\ dgrams = 0
    /\ faults = [kind |-> "none", n |-> 0]
    /\ CsumOff
    /\ UaOff

\* (mutant: Die returns to its caller)
Die_Returns == "recv"
\* Die(mess): the message is printed and the process exits with status 1
Die == "died"

\* stopHandler
StopSignal ==
    /\ UNCHANGED notUdp
    /\ pc \notin {"off", "exited", "died", "crashed"}
    /\ running = TRUE
    /\ running' = FALSE
    /\ UNCHANGED <<pc, command, response, conn, tcpIn, dev, step, udp_counter,
                   udp_client, recv_len, in_data, send_buffer, locals, wire,
                   udpOut, taken, dgrams, faults>>

\* while (running) and, once the loop is left, the two close calls
LoopTest ==
    /\ UNCHANGED notUdp
    /\ pc = "while"
    /\ pc' = IF running THEN "recvfrom" ELSE "exited"
    /\ UNCHANGED <<running, command, response, conn, tcpIn, dev, step,
                   udp_counter, udp_client, recv_len, in_data, send_buffer,
                   locals, wire, udpOut, taken, dgrams, faults>>

\* the command of an exchange of the cycle
CommandOf(s, d) ==
    CASE s = "MWV" -> vMWV \o Fmt96f(d.voltage_setpoint) \o CRLF
      [] s = "MWI" -> vMWI \o Fmt96f(d.current_setpoint) \o CRLF
      [] s = "MST" -> vMST \o CRLF
      [] s = "MWIq" -> vMWIq \o CRLF
      [] s = "MWVq" -> vMWVq \o CRLF
      [] s = "MRI" -> vMRI \o CRLF
      [] s = "MRV" -> vMRV \o CRLF

\* (mutant: the readbacks are queried before the setpoints)
StepAfter_ReadbackFirst(s) ==
    CASE s = "MWV" -> "MWI"
      [] s = "MWI" -> "MST"
      [] s = "MST" -> "MRI"
      [] s = "MRI" -> "MRV"
      [] s = "MRV" -> "MWIq"
      [] s = "MWIq" -> "MWVq"
      [] s = "MWVq" -> "none"

\* (mutant: the voltage readback is not queried)
StepAfter_NoVoltageReadback(s) ==
    CASE s = "MWV" -> "MWI"
      [] s = "MWI" -> "MST"
      [] s = "MST" -> "MWIq"
      [] s = "MWIq" -> "MWVq"
      [] s = "MWVq" -> "MRI"
      [] s = "MRI" -> "none"
      [] s = "MRV" -> "none"

\* the exchange that follows exchange s in the loop body
StepAfter(s) ==
    CASE s = "MWV" -> "MWI"
      [] s = "MWI" -> "MST"
      [] s = "MST" -> "MWIq"
      [] s = "MWIq" -> "MWVq"
      [] s = "MWVq" -> "MRI"
      [] s = "MRI" -> "MRV"
      [] s = "MRV" -> "none"

\* (mutant: the setpoints are written whatever set is)
FirstStep_Always(d) == "MWV"
\* (mutant: the setpoints are written only for set = 1)
FirstStep_SetIsOne(d) == IF d.set = 1 THEN "MWV" ELSE "MST"
\* the first exchange of the loop body for the control_data d
FirstStep(d) == IF d.set # 0 THEN "MWV" ELSE "MST"

\* (mutant: the send buffer is not cleared)
ClearBefore_Never(s, sb) == sb
\* memset(send_buffer, 0, UDPBUFLEN) when the exchange s about to start is
\* the MST query
ClearBefore(s, sb) == IF s = "MST" THEN Fill(UDPBUFLEN, 0) ELSE sb

\* (mutant: only datagrams that are too short are refused)
WrongLength_TooShort(n) == n < CONTROLSIZE
\* if (recv_len != CONTROLSIZE) ... continue
WrongLength(n) == n # CONTROLSIZE
\* (mutant: the test of the magic is inverted)
WrongMagic_Inverted(d) == d.magic = CONTROLMAGIC
\* if (in_data->magic != CONTROLMAGIC) ... continue
WrongMagic(d) == d.magic # CONTROLMAGIC

\* (mutant: continue jumps to recvfrom without the loop test)
RecvFromNothing_Retry ==
    /\ UNCHANGED notUdp
    /\ pc = "recvfrom"
    /\ pc' = "recvfrom"
    /\ recv_len' = 0 - 1
    /\ UNCHANGED <<running, command, response, conn, tcpIn, dev, step,
                   udp_counter, udp_client, in_data, send_buffer, locals, wire,
                   udpOut, taken, dgrams, faults>>

\* nanosleep and recvfrom, down to the first device command:
\* nothing received, a datagram discarded, or a cycle begun
RecvFromNothing ==
    /\ UNCHANGED notUdp
    /\ pc = "recvfrom"
    /\ pc' = "while"
    /\ recv_len' = 0 - 1
    /\ UNCHANGED <<running, command, response, conn, tcpIn, dev, step,
                   udp_counter, udp_client, in_data, send_buffer, locals, wire,
                   udpOut, taken, dgrams, faults>>

RecvFrom ==
    /\ UNCHANGED notUdp
    /\ pc = "recvfrom"
    /\ dgrams < MaxDatagrams
    /\ \E g \in Datagrams :
        LET valid == ~WrongLength(g.len) /\ ~WrongMagic(g.data)
        IN  /\ recv_len' = g.len
            /\ in_data' = g.data
            /\ udp_client' = g.from
            /\ udp_counter' = udp_counter + 1
            /\ dgrams' = dgrams + 1
            /\ wire' = << >>
            /\ udpOut' = << >>
            /\ taken' = g
            /\ IF valid
               THEN /\ pc' = "send"
                    /\ step' = FirstStep(g.data)
                    /\ command' = CommandOf(FirstStep(g.data), g.data)
                    /\ send_buffer' = ClearBefore(FirstStep(g.data), send_buffer)
               ELSE /\ pc' = "while"
                    /\ UNCHANGED <<step, command, send_buffer>>
    /\ UNCHANGED <<running, response, conn, tcpIn, dev, locals, faults>>

Event(e, t, r, n) == [ev |-> e, text |-> t, rep |-> r, n |-> n, dev |-> dev]

\* the irregular reactions of the device to a command: a #NAK reply, a
\* reply of two characters, closing or resetting the connection, no reply.
\* A device reacts irregularly at most MaxFaults times, in one way.
Irregular == {"nak", "short", "close", "reset", "silent"}

\* send(sock, command, buflen, 0) of TcpSendReceive, and what the device
\* does with the command
TcpSend ==
    /\ UNCHANGED notUdp
    /\ pc = "send"
    /\ \/ \* send() does not accept buflen bytes: Die
          /\ pc' = Die
          /\ \E n \in {0 - 1, Len(command) - 1} :
              wire' = Append(wire, Event("cmd", command, "torn", n))
          /\ UNCHANGED <<conn, tcpIn, dev, faults>>
       \/ \* the regular answer
          /\ conn = "open"
          /\ pc' = "recv"
          /\ tcpIn' = tcpIn \o DeviceAnswer(dev, command)
          /\ dev' = DeviceAfter(dev, command)
          /\ wire' = Append(wire, Event("cmd", command, "regular", Len(command)))
          /\ UNCHANGED <<conn, faults>>
       \/ \* an irregular reaction
          /\ conn = "open"
          /\ faults.n < MaxFaults
          /\ \E r \in Irregular :
              /\ faults.kind \in {"none", r}
              /\ faults' = [kind |-> r, n |-> faults.n + 1]
              /\ tcpIn' = CASE r = "nak" -> tcpIn \o NAKReply
                            [] r = "short" -> tcpIn \o ShortReply
                            [] OTHER -> tcpIn
              /\ conn' = CASE r = "close" -> "closed"
                           [] r = "reset" -> "reset"
                           [] OTHER -> conn
              /\ wire' = Append(wire, Event("cmd", command, r, Len(command)))
          /\ pc' = "recv"
          /\ UNCHANGED dev
       \/ \* the connection is gone: the command is lost
          /\ conn # "open"
          /\ pc' = "recv"
          /\ wire' = Append(wire, Event("cmd", command, "lost", Len(command)))
          /\ UNCHANGED <<conn, tcpIn, dev, faults>>
    /\ UNCHANGED <<running, command, response, step, udp_counter, udp_client,
                   recv_len, in_data, send_buffer, locals, udpOut, taken, dgrams>>

\* recv(sock, response, BUFSIZE-1, 0): the bytes that have arrived, 0 on a
\* connection closed by the peer, -1 on an error; it blocks while the
\* connection is open and nothing has arrived (the socket has no timeout)
RecvLens ==
    IF tcpIn # << >> THEN {Min(Len(tcpIn), BUFSIZE - 1)}
    ELSE IF conn = "closed" THEN {0}
    ELSE IF conn = "reset" THEN {0 - 1}
    ELSE {}

\* response[reclen] = '\0' with the unsigned reclen of TcpSendReceive: for
\* recv's -1 the index is 4294967295, outside the buffer, and the store is
\* undefined: the process is killed or goes on with the buffer untouched
Terminated(resp, data, reclen) ==
    IF reclen >= 0
    THEN {[crashed |-> FALSE, response |-> Poke(Poke(resp, 0, data), reclen, <<NUL>>)]}
    ELSE {[crashed |-> TRUE, response |-> resp],
          [crashed |-> FALSE, response |-> resp]}

\* sscanf(response+5, "%x", &(databuffer->status))
StatusOf(resp) == ScanHex(CStrFrom(resp, 5))
\* sscanf(response+5, "%lf", &isp) and its three siblings
ValueOf(resp) == ScanDouble(CStrFrom(resp, 5))

\* (mutant: the two setpoint fields change places)
FieldOffset_SetpointsSwapped(s) ==
    CASE s = "MST" -> PAYLOAD
      [] s = "MWIq" -> PAYLOAD + 12
      [] s = "MWVq" -> PAYLOAD + 4
      [] s = "MRI" -> PAYLOAD + 20
      [] s = "MRV" -> PAYLOAD + 28

\* byte offset in send_buffer of the field filled after exchange s
FieldOffset(s) ==
    CASE s = "MST" -> PAYLOAD
      [] s = "MWIq" -> PAYLOAD + 4
      [] s = "MWVq" -> PAYLOAD + 12
      [] s = "MRI" -> PAYLOAD + 20
      [] s = "MRV" -> PAYLOAD + 28

\* the doubles after the reply to exchange s has been scanned: the
\* variable of the exchange holds the converted number, or what it held
\* before when sscanf converts nothing
Scanned(s, resp, ls) ==
    IF s \in DOMAIN ls
    THEN LET sc == ValueOf(resp)
         IN  IF sc.ok THEN [ls EXCEPT ![s] = Dbl(sc.neg, sc.units, sc.frac)] ELSE ls
    ELSE ls

\* the send buffers after the reply to exchange s has been evaluated:
\* the status word as scanned, a value field as (int)round(1e6*x)
Evaluated(s, resp, ls, sb) ==
    CASE s \in {"MWV", "MWI"} -> {sb}
      [] s = "MST" ->
            LET st == StatusOf(resp)
            IN  {IF st.ok THEN Poke(sb, FieldOffset(s), st.val) ELSE sb}
      [] OTHER -> {Poke(sb, FieldOffset(s), I64LE(v)) : v \in CastInt(RoundMicro(ls[s]))}

\* the rest of TcpSendReceive and the loop body up to the next send
TcpRecv ==
    /\ UNCHANGED notUdp
    /\ pc = "recv"
    /\ \E reclen \in RecvLens :
        LET data == SubSeq(tcpIn, 1, Max(reclen, 0))
        IN  /\ tcpIn' = SubSeq(tcpIn, Max(reclen, 0) + 1, Len(tcpIn))
            /\ wire' = Append(wire, Event("recv", data, "", reclen))
            /\ \E t \in Terminated(response, data, reclen) :
                /\ response' = t.response
                /\ IF t.crashed
                   THEN /\ pc' = "crashed"
                        /\ UNCHANGED <<step, command, send_buffer, locals>>
                   ELSE /\ locals' = Scanned(step, t.response, locals)
                        /\ \E sb \in Evaluated(step, t.response, locals', send_buffer) :
                            LET nxt == StepAfter(step)
                            IN  /\ step' = nxt
                                /\ IF nxt = "none"
                                   THEN /\ pc' = "sendto"
                                        /\ send_buffer' = sb
                                        /\ UNCHANGED command
                                   ELSE /\ pc' = "send"
                                        /\ command' = CommandOf(nxt, in_data)
                                        /\ send_buffer' = ClearBefore(nxt, sb)
    /\ UNCHANGED <<running, conn, dev, udp_counter, udp_client, recv_len,
                   in_data, udpOut, taken, dgrams, faults>>

\* (mutant: the UDP checksum leaves out the pseudo-header)
Packet_NoPseudoHeader(sb, counter, client) ==
    LET ip == <<69, 0>> \o U16LE(TOTLEN) \o U16LE(counter % 65536) \o <<0, 0>>
              \o <<255, IPPROTO_UDP>> \o <<0, 0>> \o udp_server.addr \o client.addr
        b1 == Poke(sb, 0, ip)
        b2 == Poke(b1, 10, U16LE(csum(b1, TOTLEN)))
        udp == udp_server.port \o client.port \o U16BE(UDPHDRSIZE + RESPONSESIZE) \o <<0, 0>>
        b3 == Poke(b2, IPHDRSIZE, udp)
        pseudogram == Peek(b3, IPHDRSIZE, UDPHDRSIZE + RESPONSESIZE)
    IN  Poke(b3, IPHDRSIZE + 6, U16LE(csum(pseudogram, UDPHDRSIZE + RESPONSESIZE)))

\* the IP header, the UDP header and the two checksums written into the
\* send buffer sb
Packet(sb, counter, client) ==
    LET ip == <<69, 0>> \o U16LE(TOTLEN) \o U16LE(counter % 65536) \o <<0, 0>>
              \o <<255, IPPROTO_UDP>> \o <<0, 0>> \o udp_server.addr \o client.addr
        b1 == Poke(sb, 0, ip)
        b2 == Poke(b1, 10, U16LE(csum(b1, TOTLEN)))
        udp == udp_server.port \o client.port \o U16BE(UDPHDRSIZE + RESPONSESIZE) \o <<0, 0>>
        b3 == Poke(b2, IPHDRSIZE, udp)
        psh == udp_server.addr \o client.addr \o <<0, IPPROTO_UDP>>
               \o U16BE(UDPHDRSIZE + RESPONSESIZE)
        pseudogram == psh \o Peek(b3, IPHDRSIZE, UDPHDRSIZE + RESPONSESIZE)
        psize == 12 + UDPHDRSIZE + RESPONSESIZE
    IN  Poke(b3, IPHDRSIZE + 6, U16LE(csum(pseudogram, psize)))

\* iph->tot_len as sendto reads it back from the buffer
TotLenOf(sb) == sb[3] + 256 * sb[4]

\* (mutant: the headers are filled in and nothing is sent)
SendTo_Missing ==
    /\ UNCHANGED notUdp
    /\ pc = "sendto"
    /\ send_buffer' = Packet(send_buffer, udp_counter, udp_client)
    /\ pc' = "while"
    /\ UNCHANGED <<running, command, response, conn, tcpIn, dev, step,
                   udp_counter, udp_client, recv_len, in_data, locals, wire,
                   udpOut, taken, dgrams, faults>>

\* the headers are filled in and the buffer is passed to sendto
SendTo ==
    /\ UNCHANGED notUdp
    /\ pc = "sendto"
    /\ send_buffer' = Packet(send_buffer, udp_counter, udp_client)
    /\ udpOut' = Append(udpOut, [buf |-> Peek(send_buffer', 0, TotLenOf(send_buffer')),
                                 to |-> udp_client])
    /\ pc' = "while"
    /\ UNCHANGED <<running, command, response, conn, tcpIn, dev, step,
                   udp_counter, udp_client, recv_len, in_data, locals, wire,
                   taken, dgrams, faults>>

Next ==
    \/ StopSignal
    \/ LoopTest
    \/ RecvFromNothing
    \/ RecvFrom
    \/ TcpSend
    \/ TcpRecv
    \/ SendTo

Spec == Init /\ [][Next]_vars

\* the UDP responder is not looked at
UdpOff ==
    /\ pc = "off"
    /\ running = FALSE
    /\ command = << >>
    /\ response = Fill(BUFSIZE, NUL)
    /\ conn = "open"
    /\ tcpIn = << >>
    /\ dev = DeviceStart
    /\ step = "none"
    /\ udp_counter = 0
    /\ send_buffer = Fill(UDPBUFLEN, 0)
    /\ locals = [s \in {"MWIq", "MWVq", "MRI", "MRV"} |-> Dbl(FALSE, 0, << >>)]
    /\ udp_client = NoDatagram.from
    /\ recv_len = 0
    /\ in_data = NoDatagram.data
    /\ wire = << >>
    /\ udpOut = << >>
    /\ taken = NoDatagram
    /\ dgrams = 0
    /\ faults = [kind |-> "none", n |-> 0]

(***************************************************************************)
(* csum called on its own                                                  *)
(***************************************************************************)
\* the first MaxPoke bytes of the memory take every value of TestBytes
MaxPoke == 4
TestBytes == {0, 1, 128, 255}
\* the lengths summed: none, odd and even short ones, the IP header, the
\* pseudogram, the packet, and the whole buffer less one and whole
CsumLens ==
    {0, 1, 2, 3, 5, 6, IPHDRSIZE, 12 + UDPHDRSIZE + RESPONSESIZE, TOTLEN,
     UDPBUFLEN - 1, UDPBUFLEN}

CsumInit ==
    /\ UdpOff
    /\ UaOff
    /\ \E n \in CsumLens, b \in {0, 255} :
        /\ ptr = Fill(UDPBUFLEN, b)
        /\ nbytes = n
    /\ answer = 0 - 1

\* a byte is stored in the memory before the call
CsumStore ==
    /\ answer = 0 - 1
    /\ \E i \in 1..MaxPoke, b \in TestBytes : ptr' = [ptr EXCEPT ![i] = b]
    /\ UNCHANGED <<nbytes, answer, udpVars, uaVars>>

\* answer = csum(ptr, nbytes)
CsumCall ==
    /\ answer = 0 - 1
    /\ answer' = csum(ptr, nbytes)
    /\ UNCHANGED <<ptr, nbytes, udpVars, uaVars>>

CsumNext == CsumStore \/ CsumCall

CsumSpec == CsumInit /\ [][CsumNext]_vars

(***************************************************************************)
(* The OPC UA server (OpcUaServer.c): serving requests                     *)
(***************************************************************************)
maxreg == 40

\* at most MaxCalls requests are looked at
MaxCalls == 2

\* the register table the server serves with: a configuration with three
\* <register> elements has been loaded
ServedRegs == <<10, 5, 123>>

\* what belongs to the UDP responder alone
udpOwn == <<pc, running, command, response, conn, tcpIn, step, udp_counter,
            udp_client, recv_len, in_data, send_buffer, locals, wire, udpOut,
            taken, dgrams, faults>>

NoVal == Micro(FALSE, 0, 0)
ReadVars == {"DeviceStatus", "OutputOn", "MReset", "ModeSFP", "Current",
             "Voltage", "CurrentSetpoint", "VoltageSetpoint"}
\* the read callbacks a client can cause
ReadOps ==
    {Op("read", v, 0, NoOp.data, FALSE, NoVal) : v \in ReadVars}
        \cup {Op("read", "Register", RegNr[i], NoOp.data, FALSE, NoVal) :
                 i \in 1..Len(RegNr)}
\* the write callbacks a client can cause, with data that pass the tests
\* of the callback and with data that do not
WriteOps ==
    {Op("write", v, 0, Data(TRUE, TRUE, "BOOLEAN", TRUE), f, NoVal) :
         v \in {"OutputOn", "MReset", "ModeSFP"}, f \in BOOLEAN}
        \cup {Op("write", "CurrentSetpoint", 0, Data(TRUE, TRUE, "DOUBLE", TRUE),
                 FALSE, Micro(FALSE, 1, 500000)),
              Op("write", "VoltageSetpoint", 0, Data(TRUE, TRUE, "DOUBLE", TRUE),
                 FALSE, Micro(FALSE, 12, 0))}
        \cup {Op("write", "Register", RegNr[i], Data(TRUE, TRUE, "DOUBLE", TRUE),
                 FALSE, Micro(FALSE, 3, 250000)) : i \in 1..Len(RegNr)}
        \cup UNION {{Op("write", v, IF v = "Register" THEN RegNr[1] ELSE 0, d,
                         FALSE, NoVal) : d \in InvalidData(v)} :
                       v \in {"OutputOn", "MReset", "ModeSFP", "CurrentSetpoint",
                              "VoltageSetpoint", "Register"}}

\* (mutant: writeMReset sends its command for false as well)
HasCommand_ResetOnAnyValue(op) ==
    \/ op.kind = "read" /\ op.var # "MReset"
    \/ op.kind = "write" /\ ValidData(op.var, op.data)
\* the callback sends a command: every read but that of MReset, whose
\* data source reads with readBoolean, and every write whose data pass
\* the test, that of MReset only for true
HasCommand(op) ==
    \/ op.kind = "read" /\ op.var # "MReset"
    \/ op.kind = "write" /\ ValidData(op.var, op.data)
            /\ (op.var = "MReset" => op.flag)

\* (mutant: the write callbacks of the booleans send the command for true
\* whatever the value is)
CommandFor_FlagIgnored(op) ==
    IF op.kind = "read"
    THEN CASE op.var \in {"DeviceStatus", "OutputOn"} -> vMST \o CRLF
           [] op.var = "ModeSFP" -> vUPMODE \o CRLF
           [] op.var = "Current" -> vMRI \o CRLF
           [] op.var = "Voltage" -> vMRV \o CRLF
           [] op.var = "CurrentSetpoint" -> vMWIq \o CRLF
           [] op.var = "VoltageSetpoint" -> vMWVq \o CRLF
           [] op.var = "Register" -> vMRG \o NatText(op.index) \o CRLF
    ELSE CASE op.var = "OutputOn" -> vMON \o CRLF
           [] op.var = "MReset" -> vMRESET \o CRLF
           [] op.var = "ModeSFP" -> vUPMODEw \o vSFP \o CRLF
           [] op.var = "CurrentSetpoint" -> vMWI \o Fmt96f(op.val) \o CRLF
           [] op.var = "VoltageSetpoint" -> vMWV \o Fmt96f(op.val) \o CRLF
           [] op.var = "Register" ->
                 vMWG \o NatText(op.index) \o <<":">> \o Fmt6f(op.val) \o CRLF
\* (mutant: reading the update mode selects the normal mode)
CommandFor_ReadSelectsMode(op) ==
    IF op.kind = "read"
    THEN CASE op.var \in {"DeviceStatus", "OutputOn"} -> vMST \o CRLF
           [] op.var = "ModeSFP" -> vUPMODEw \o vSFP \o CRLF
           [] op.var = "Current" -> vMRI \o CRLF
           [] op.var = "Voltage" -> vMRV \o CRLF
           [] op.var = "CurrentSetpoint" -> vMWIq \o CRLF
           [] op.var = "VoltageSetpoint" -> vMWVq \o CRLF
           [] op.var = "Register" -> vMRG \o NatText(op.index) \o CRLF
    ELSE CASE op.var = "OutputOn" -> (IF op.flag THEN vMON ELSE vMOFF) \o CRLF
           [] op.var = "MReset" -> vMRESET \o CRLF
           [] op.var = "ModeSFP" -> vUPMODEw \o (IF op.flag THEN vSFP ELSE vNORMAL) \o CRLF
           [] op.var = "CurrentSetpoint" -> vMWI \o Fmt96f(op.val) \o CRLF
           [] op.var = "VoltageSetpoint" -> vMWV \o Fmt96f(op.val) \o CRLF
           [] op.var = "Register" ->
                 vMWG \o NatText(op.index) \o <<":">> \o Fmt6f(op.val) \o CRLF
\* strcpy/snprintf of the command of a callback
CommandFor(op) ==
    IF op.kind = "read"
    THEN CASE op.var \in {"DeviceStatus", "OutputOn"} -> vMST \o CRLF
           [] op.var = "ModeSFP" -> vUPMODE \o CRLF
           [] op.var = "Current" -> vMRI \o CRLF
           [] op.var = "Voltage" -> vMRV \o CRLF
           [] op.var = "CurrentSetpoint" -> vMWIq \o CRLF
           [] op.var = "VoltageSetpoint" -> vMWVq \o CRLF
           [] op.var = "Register" -> vMRG \o NatText(op.index) \o CRLF
    ELSE CASE op.var = "OutputOn" -> (IF op.flag THEN vMON ELSE vMOFF) \o CRLF
           [] op.var = "MReset" -> vMRESET \o CRLF
           [] op.var = "ModeSFP" -> vUPMODEw \o (IF op.flag THEN vSFP ELSE vNORMAL) \o CRLF
           [] op.var = "CurrentSetpoint" -> vMWI \o Fmt96f(op.val) \o CRLF
           [] op.var = "VoltageSetpoint" -> vMWV \o Fmt96f(op.val) \o CRLF
           [] op.var = "Register" ->
                 vMWG \o NatText(op.index) \o <<":">> \o Fmt6f(op.val) \o CRLF

NoWord == <<0, 0, 0, 0>>
NoDbl == Dbl(FALSE, 0, << >>)
Uncertain == Result("Uncertain", FALSE, FALSE, NoWord, NoDbl)
BadCommunicationError == Result("BadCommunicationError", FALSE, FALSE, NoWord, NoDbl)
Good == Result("Good", FALSE, FALSE, NoWord, NoDbl)
GoodBool(b) == Result("Good", TRUE, b, NoWord, NoDbl)
GoodWord(w) == Result("Good", TRUE, FALSE, w, NoDbl)
GoodDouble(d) == Result("Good", TRUE, FALSE, NoWord, d)

\* bool DeviceMResetValue = false, the node context of MReset; nothing
\* assigns to it
DeviceMResetValue == FALSE

\* what a callback returns without sending: readBoolean the boolean its
\* node context points to, a write callback Good when MReset was set to
\* false and the uncertain status when the data did not pass its test
Immediate(op) ==
    IF op.kind = "read" THEN GoodBool(DeviceMResetValue)
    ELSE IF ValidData(op.var, op.data) THEN Good ELSE Uncertain

\* what an uninitialized local of a callback may hold
UninitWords == {Fill(4, u.byte) : u \in UninitStacks}
UninitDoubles == {u.dbl : u \in UninitStacks}

\* the return value of sscanf with one conversion: 1, 0 when the text
\* does not match, EOF when the text ends before anything is matched
ScanCount(text, ok) ==
    IF ok THEN 1 ELSE IF SkipSpace(text) = << >> THEN 0 - 1 ELSE 0

\* unsigned int status after sscanf(response+5, "%x", &status)
ScannedStatus(resp) ==
    LET st == ScanHex(CStrFrom(resp, 5))
    IN  IF st.ok THEN {st.val} ELSE UninitWords
\* double val after sscanf(response+off, "%lf", &val)
ScannedDouble(resp, off) ==
    LET sc == ScanDouble(CStrFrom(resp, off))
    IN  IF sc.ok THEN {Dbl(sc.neg, sc.units, sc.frac)} ELSE UninitDoubles

\* the marker a read callback compares the reply with, if it compares
Marker(op) ==
    CASE op.var = "Current" -> <<"#">> \o vMRI \o <<":">>
      [] op.var = "Voltage" -> <<"#">> \o vMRV \o <<":">>
      [] op.var = "CurrentSetpoint" -> <<"#">> \o vMWI
      [] op.var = "VoltageSetpoint" -> <<"#">> \o vMWV
      [] op.var = "Register" -> <<"#">> \o vMRG
      [] OTHER -> << >>

\* (mutant: writeRegister takes any reply for success)
Outcome_AnyReply(op, resp, reclen) ==
    IF op.kind = "write"
    THEN IF op.var = "Register"
         THEN (IF reclen > 0 THEN {Good} ELSE {BadCommunicationError})
         ELSE {Good}
    ELSE CASE op.var = "DeviceStatus" ->
                LET t == CStrFrom(resp, 5)
                IN  IF ScanCount(t, ScanHex(t).ok) = 0 THEN {Uncertain}
                    ELSE {GoodWord(w) : w \in ScannedStatus(resp)}
           [] op.var = "OutputOn" ->
                {GoodBool(w[1] % 2 = 1) : w \in ScannedStatus(resp)}
           [] op.var = "ModeSFP" -> {GoodBool(Peek(resp, 8, 3) = vSFP)}
           [] OTHER ->
                IF Peek(resp, 0, 5) = Marker(op)
                THEN {GoodDouble(d) :
                         d \in ScannedDouble(resp, IF op.var = "Register" THEN 8 ELSE 5)}
                ELSE {Uncertain}

\* the results a callback can return once TcpSendReceive has returned
\* reclen with the response buffer resp
Outcome(op, resp, reclen) ==
    IF op.kind = "write"
    THEN IF op.var = "Register"
         THEN (IF reclen > 3 THEN {Good} ELSE {BadCommunicationError})
         ELSE {Good}
    ELSE CASE op.var = "DeviceStatus" ->
                LET t == CStrFrom(resp, 5)
                IN  IF ScanCount(t, ScanHex(t).ok) = 0 THEN {Uncertain}
                    ELSE {GoodWord(w) : w \in ScannedStatus(resp)}
           [] op.var = "OutputOn" ->
                {GoodBool(w[1] % 2 = 1) : w \in ScannedStatus(resp)}
           [] op.var = "ModeSFP" -> {GoodBool(Peek(resp, 8, 3) = vSFP)}
           [] OTHER ->
                IF Peek(resp, 0, 5) = Marker(op)
                THEN {GoodDouble(d) :
                         d \in ScannedDouble(resp, IF op.var = "Register" THEN 8 ELSE 5)}
                ELSE {Uncertain}

OpcInit ==
    /\ UdpOff
    /\ CsumOff
    /\ ua_pc = "run"
    /\ ua_running = TRUE
    /\ ua_command = << >>
    /\ ua_response = Fill(BUFSIZE, NUL)
    /\ ua_conn = "open"
    /\ ua_tcpIn = << >>
    /\ ua_late = << >>
    /\ ua_op = NoOp
    /\ ua_result = NoResult
    /\ ua_wire = << >>
    /\ ua_calls = 0
    /\ ua_faults = [kind |-> "none", n |-> 0]
    /\ registers = ServedRegs
    /\ RegNr = ServedRegs
    /\ loopindex = Len(ServedRegs)

\* stopHandler
UaStopSignal ==
    /\ ua_pc \notin {"off", "exited", "died"}
    /\ ua_running = TRUE
    /\ ua_running' = FALSE
    /\ UNCHANGED <<ua_pc, ua_command, ua_response, ua_conn, ua_tcpIn, ua_late,
                   ua_op, ua_result, ua_wire, ua_calls, ua_faults, registers,
                   RegNr, loopindex, udpVars, csumVars>>

\* UA_Server_run returns once running is false; close(sock)
UaServerExit ==
    /\ ua_pc = "run"
    /\ ua_running = FALSE
    /\ ua_pc' = "exited"
    /\ UNCHANGED <<ua_running, ua_command, ua_response, ua_conn, ua_tcpIn,
                   ua_late, ua_op, ua_result, ua_wire, ua_calls, ua_faults,
                   registers, RegNr, loopindex, udpVars, csumVars>>

\* a client reads or writes a variable: the callback is entered and builds
\* its command, or returns at once
UaRequest ==
    /\ ua_pc = "run"
    /\ ua_calls < MaxCalls
    /\ \E op \in ReadOps \cup WriteOps :
        /\ ua_op' = op
        /\ IF HasCommand(op)
           THEN /\ ua_command' = CommandFor(op)
                /\ ua_pc' = "send"
                /\ ua_result' = NoResult
           ELSE /\ ua_result' = Immediate(op)
                /\ UNCHANGED <<ua_command, ua_pc>>
    /\ ua_calls' = ua_calls + 1
    /\ ua_wire' = << >>
    /\ UNCHANGED <<ua_running, ua_response, ua_conn, ua_tcpIn, ua_late,
                   ua_faults, registers, RegNr, loopindex, udpVars, csumVars>>

\* the irregular reactions of the device seen by the server: those of
\* Irregular, and a reply that arrives after the receive has timed out
UaIrregular == Irregular \cup {"late"}

\* (mutant: the reply to a write is not received)
AfterSend_WritesDoNotWait(op) == IF op.kind = "write" THEN "run" ELSE "recv"
\* TcpSendReceive: the recv that follows the send
AfterSend(op) == "recv"

\* send(sock, command, buflen, 0) of TcpSendReceive, and what the device
\* does with the command
UaSend ==
    /\ ua_pc = "send"
    /\ \/ \* send() does not accept buflen bytes: Die
          /\ ua_pc' = Die
          /\ \E n \in {0 - 1, Len(ua_command) - 1} :
              ua_wire' = Append(ua_wire, Event("cmd", ua_command, "torn", n))
          /\ UNCHANGED <<ua_conn, ua_tcpIn, ua_late, dev, ua_faults>>
       \/ \* the regular answer
          /\ ua_conn = "open"
          /\ ua_pc' = AfterSend(ua_op)
          /\ ua_tcpIn' = ua_tcpIn \o DeviceAnswer(dev, ua_command)
          /\ dev' = DeviceAfter(dev, ua_command)
          /\ ua_wire' = Append(ua_wire, Event("cmd", ua_command, "regular", Len(ua_command)))
          /\ UNCHANGED <<ua_conn, ua_late, ua_faults>>
       \/ \* an irregular reaction
          /\ ua_conn = "open"
          /\ ua_faults.n < MaxFaults
          /\ \E r \in UaIrregular :
              /\ ua_faults.kind \in {"none", r}
              /\ ua_faults' = [kind |-> r, n |-> ua_faults.n + 1]
              /\ ua_tcpIn' = CASE r = "nak" -> ua_tcpIn \o NAKReply
                               [] r = "short" -> ua_tcpIn \o ShortReply
                               [] OTHER -> ua_tcpIn
              /\ ua_late' = IF r = "late" THEN ua_late \o DeviceAnswer(dev, ua_command)
                            ELSE ua_late
              /\ dev' = IF r = "late" THEN DeviceAfter(dev, ua_command) ELSE dev
              /\ ua_conn' = CASE r = "close" -> "closed"
                              [] r = "reset" -> "reset"
                              [] OTHER -> ua_conn
              /\ ua_wire' = Append(ua_wire, Event("cmd", ua_command, r, Len(ua_command)))
          /\ ua_pc' = AfterSend(ua_op)
       \/ \* the connection is gone: the command is lost
          /\ ua_conn # "open"
          /\ ua_pc' = AfterSend(ua_op)
          /\ ua_wire' = Append(ua_wire, Event("cmd", ua_command, "lost", Len(ua_command)))
          /\ UNCHANGED <<ua_conn, ua_tcpIn, ua_late, dev, ua_faults>>
    /\ UNCHANGED <<ua_running, ua_command, ua_response, ua_op, ua_result,
                   ua_calls, registers, RegNr, loopindex, udpOwn, csumVars>>

\* recv(sock, response, BUFSIZE-1, 0) with the receive timeout of one
\* second set on sock: the bytes that have arrived, 0 on a connection
\* closed by the peer, -1 on an error or when the timeout expires
UaRecvLens ==
    IF ua_tcpIn # << >> THEN {Min(Len(ua_tcpIn), BUFSIZE - 1)}
    ELSE IF ua_conn = "closed" THEN {0}
    ELSE {0 - 1}

\* if (reclen>0) response[reclen] = '\0'
UaTerminated(resp, data, reclen) ==
    IF reclen > 0 THEN Poke(Poke(resp, 0, data), reclen, <<NUL>>) ELSE resp

\* the rest of TcpSendReceive and of the callback
UaRecv ==
    /\ ua_pc = "recv"
    /\ \E reclen \in UaRecvLens :
        LET data == SubSeq(ua_tcpIn, 1, Max(reclen, 0))
        IN  /\ ua_tcpIn' = SubSeq(ua_tcpIn, Max(reclen, 0) + 1, Len(ua_tcpIn)) \o ua_late
            /\ ua_late' = << >>
            /\ ua_wire' = Append(ua_wire, Event("recv", data, "", reclen))
            /\ ua_response' = UaTerminated(ua_response, data, reclen)
            /\ ua_result' \in Outcome(ua_op, ua_response', reclen)
    /\ ua_pc' = "run"
    /\ UNCHANGED <<ua_running, ua_command, ua_conn, ua_op, ua_calls, ua_faults,
                   registers, RegNr, loopindex, udpVars, csumVars>>

OpcNext ==
    \/ UaStopSignal
    \/ UaServerExit
    \/ UaRequest
    \/ UaSend
    \/ UaRecv

OpcSpec == OpcInit /\ [][OpcNext]_vars

\* either process, on its own (the responder entered with a stack of zero
\* bytes)
BothInit == (Init /\ udp_counter = 0) \/ OpcInit
BothNext == Next \/ OpcNext
BothSpec == BothInit /\ [][BothNext]_vars

\* both processes at the same device, each with its own connection: the
\* responder serves well-formed datagrams with set != 0 and setpoints
\* within 32 bits of micro-units, a client of the OPC UA server writes the
\* setpoints, the device answers every command regularly and neither
\* process is stopped
SharedInit ==
    /\ pc = "while"
    /\ running = TRUE
    /\ command = << >>
    /\ response = Fill(BUFSIZE, NUL)
    /\ conn = "open"
    /\ tcpIn = << >>
    /\ dev = DeviceStart
    /\ step = "none"
    /\ udp_counter = 0
    /\ send_buffer = Fill(UDPBUFLEN, 0)
    /\ locals = [s \in {"MWIq", "MWVq", "MRI", "MRV"} |-> Dbl(FALSE, 0, << >>)]
    /\ udp_client = NoDatagram.from
    /\ recv_len = 0
    /\ in_data = NoDatagram.data
    /\ wire = << >>
    /\ udpOut = << >>
    /\ taken = NoDatagram
    /\ dgrams = 0
    /\ faults = [kind |-> "none", n |-> 0]
    /\ CsumOff
    /\ ua_pc = "run"
    /\ ua_running = TRUE
    /\ ua_command = << >>
    /\ ua_response = Fill(BUFSIZE, NUL)
    /\ ua_conn = "open"
    /\ ua_tcpIn = << >>
    /\ ua_late = << >>
    /\ ua_op = NoOp
    /\ ua_result = NoResult
    /\ ua_wire = << >>
    /\ ua_calls = 0
    /\ ua_faults = [kind |-> "none", n |-> 0]
    /\ registers = ServedRegs
    /\ RegNr = ServedRegs
    /\ loopindex = Len(ServedRegs)

SharedNext ==
    \/ LoopTest
    \/ RecvFromNothing
    \/ RecvFrom /\ recv_len' = CONTROLSIZE /\ ~WrongMagic(in_data') /\ in_data'.set # 0
                /\ FitsInt32(in_data'.voltage_setpoint)
    \/ TcpSend /\ pc' = "recv" /\ faults' = faults
    \/ TcpRecv
    \/ SendTo
    \/ UaRequest /\ ua_op'.kind = "write" /\ ValidData(ua_op'.var, ua_op'.data)
                 /\ ua_op'.var \in {"CurrentSetpoint", "VoltageSetpoint"}
    \/ UaSend /\ ua_pc' = "recv" /\ ua_faults' = ua_faults
    \/ UaRecv

SharedSpec == SharedInit /\ [][SharedNext]_vars

(***************************************************************************)
(* The OPC UA server (OpcUaServer.c): start-up                             *)
(***************************************************************************)
\* the <register> elements of the configuration files looked at: none up
\* to two more than maxreg, numbered from 1, and lists that name a
\* register number twice
Configs ==
    {[i \in 1..n |-> i] : n \in 0..(maxreg + 2)}
        \cup {<<10, 5, 10>>, <<7, 7>>, <<5, 10, 123, 5>>}

\* main up to the connection to the device: the configuration file has
\* been parsed
StartInit ==
    /\ UdpOff
    /\ CsumOff
    /\ ua_pc = "connect"
    /\ ua_running = TRUE
    /\ ua_command = << >>
    /\ ua_response = Fill(BUFSIZE, NUL)
    /\ ua_conn = "none"
    /\ ua_tcpIn = << >>
    /\ ua_late = << >>
    /\ ua_op = NoOp
    /\ ua_result = NoResult
    /\ ua_wire = << >>
    /\ ua_calls = 0
    /\ ua_faults = [kind |-> "none", n |-> 0]
    /\ registers \in Configs
    /\ RegNr = << >>
    /\ loopindex = 0

\* socket, setsockopt, connect: Die when the device does not accept
UaConnect ==
    /\ ua_pc = "connect"
    /\ \/ ua_pc' = Die /\ UNCHANGED ua_conn
       \/ ua_pc' = "load" /\ ua_conn' = "open"
    /\ UNCHANGED <<ua_running, ua_command, ua_response, ua_tcpIn, ua_late,
                   ua_op, ua_result, ua_wire, ua_calls, ua_faults, registers,
                   RegNr, loopindex, udpVars, csumVars>>

\* (mutant: the test lets loopindex reach maxreg)
TooMany_Beyond(n) == n > maxreg
\* if (loopindex>=maxreg) Die("too many registers")
TooMany(n) == n >= maxreg

\* one pass of the loop over the <register> elements: the number is
\* stored at RegNr[loopindex] (sscanf stores an unsigned int through the
\* pointer to the unsigned short regNumber: the numbers of the model fit
\* and the two bytes behind regNumber hold nothing of the model), the node
\* is added, loopindex is counted up and tested
UaLoadRegister ==
    /\ ua_pc = "load"
    /\ loopindex < Len(registers)
    /\ RegNr' = Append(RegNr, registers[loopindex + 1] % 65536)
    /\ loopindex' = loopindex + 1
    /\ ua_pc' = IF TooMany(loopindex') THEN Die ELSE "load"
    /\ UNCHANGED <<ua_running, ua_command, ua_response, ua_conn, ua_tcpIn,
                   ua_late, ua_op, ua_result, ua_wire, ua_calls, ua_faults,
                   registers, udpVars, csumVars>>

\* the loop is over: xmlFreeDoc and UA_Server_run
UaLoadDone ==
    /\ ua_pc = "load"
    /\ loopindex = Len(registers)
    /\ ua_pc' = "run"
    /\ UNCHANGED <<ua_running, ua_command, ua_response, ua_conn, ua_tcpIn,
                   ua_late, ua_op, ua_result, ua_wire, ua_calls, ua_faults,
                   registers, RegNr, loopindex, udpVars, csumVars>>

StartNext ==
    \/ UaConnect
    \/ UaLoadRegister
    \/ UaLoadDone

StartSpec == StartInit /\ [][StartNext]_vars

(***************************************************************************)
(* Properties of the UDP responder                                         *)
(***************************************************************************)
\* a datagram of exactly 24 bytes that carries the magic 0x4C556543
IsControl(g) == g.len = 24 /\ g.data.magic = 1280664899
\* the loop body is over: the loop test or the next receive attempt comes
\* next, or the loop has been left
CycleOver == pc \in {"while", "recvfrom", "exited"}
\* the commands sent to the device since the last datagram was taken
CmdEvents == SelectSeq(wire, LAMBDA e : e.ev = "cmd")

StartsWith(t, pre) == Len(t) >= Len(pre) /\ SubSeq(t, 1, Len(pre)) = pre
EndsWith(t, suf) == Len(t) >= Len(suf) /\ SubSeq(t, Len(t) - Len(suf) + 1, Len(t)) = suf
SameNumber(a, b) ==
    /\ a.units = b.units /\ a.micro = b.micro
    /\ (a.units + a.micro > 0 => a.neg = b.neg)

\* t is the line verb<value>CRLF, <value> being a decimal number (possibly
\* after blanks) that is v micro-units
IsWriteOf(t, verb, v) ==
    LET arg == SubSeq(t, Len(verb) + 1, Len(t) - 2)
    IN  /\ StartsWith(t, verb) /\ EndsWith(t, CRLF) /\ Len(t) > Len(verb) + 2
        /\ \A i \in 1..Len(arg) : arg[i] \in {" ", "-", "."} \/ IsDigit(arg[i])
        /\ ScanDouble(arg).ok
        /\ SameNumber(RoundMicro(ScanDouble(arg)), v)

\* C1: a datagram of 24 bytes with the right magic causes exactly one
\* response: never more than one packet is sent for a datagram, and when
\* the cycle of such a datagram is over (so before the next datagram can be
\* taken) exactly one packet has been sent.
C1_ExactlyOneResponse ==
    /\ Len(udpOut) <= 1
    /\ (IsControl(taken) /\ CycleOver) => Len(udpOut) = 1

\* a second datagram, well-formed, has been answered once
C1_Witness ==
    /\ dgrams = 2 /\ IsControl(taken) /\ pc = "recvfrom" /\ Len(udpOut) = 1

\* C2: a 24-byte datagram with a wrong magic produces no packet and no
\* command on the TCP connection, and the loop goes on with its test and
\* the next receive attempt.
C2_WrongMagicDiscarded ==
    (taken.len = 24 /\ taken.data.magic # 1280664899)
        => udpOut = << >> /\ wire = << >> /\ CycleOver

C2_Witness ==
    /\ taken.len = 24 /\ taken.data.magic # 1280664899 /\ taken.data.set # 0
    /\ dgrams = 2 /\ pc = "recvfrom"

\* C3: a datagram whose length is not 24 bytes, shorter or longer, also
\* one that begins with the right magic, is discarded: no packet, no
\* command, and the loop goes on with the next receive attempt.
C3_WrongLengthDiscarded ==
    (taken.len >= 0 /\ taken.len # 24)
        => udpOut = << >> /\ wire = << >> /\ CycleOver

C3_Witness ==
    /\ taken.len > 24 /\ taken.data.magic = 1280664899
    /\ dgrams = 2 /\ pc = "recvfrom"

\* C4: for a well-formed datagram with set # 0 the first command is the
\* write of the voltage setpoint, the second the write of the current
\* setpoint, the third the MST query; a packet is sent only after all seven
\* commands; and whatever is received in reply to a command (an #AK or
\* not), the loop goes on to the next command, unless the process has been
\* terminated, and the cycle ends with seven commands and one packet.
C4_SetpointWritesFirst ==
    (IsControl(taken) /\ taken.data.set # 0) =>
        LET c == CmdEvents
        IN  /\ Len(c) >= 1 => IsWriteOf(c[1].text, vMWV, taken.data.voltage_setpoint)
            /\ Len(c) >= 2 => IsWriteOf(c[2].text, vMWI, taken.data.current_setpoint)
            /\ Len(c) >= 3 => c[3].text = vMST \o CRLF
            /\ udpOut # << >> => Len(c) = 7
            /\ (Len(wire) % 2 = 0 /\ Len(wire) < 14 /\ pc \notin {"died", "crashed"})
                    => pc = "send"
            /\ CycleOver => Len(c) = 7 /\ Len(udpOut) = 1

\* the voltage write was answered with #NAK and the response has been sent
C4_Witness ==
    /\ IsControl(taken) /\ taken.data.set # 0 /\ Len(udpOut) = 1
    /\ Len(CmdEvents) = 7 /\ CmdEvents[1].rep = "nak"
    /\ ~StartsWith(wire[2].text, <<"#", "A", "K">>)

\* C5 as stated: for set = 1 and a voltage setpoint of 5000000 uV the
\* device has observed the line "MWV:5.000000" CRLF, the number following
\* the colon directly, before a response is sent.
C5_Datagram ==
    /\ IsControl(taken) /\ taken.data.set = 1
    /\ taken.data.voltage_setpoint = Micro(FALSE, 5, 0)

C5_UnpaddedVoltageCommand ==
    (C5_Datagram /\ udpOut # << >>) =>
        \E i \in 1..Len(CmdEvents) :
            CmdEvents[i].text = vMWV \o <<"5", ".", "0", "0", "0", "0", "0", "0">> \o CRLF

\* C5 as amended: for set = 1 and a voltage setpoint of 5000000 uV the
\* first command the device observes is "MWV: 5.000000" CRLF: the number in
\* fixed notation with six decimals, right-aligned in a field of 9
\* characters, hence one blank after the colon; no response is sent before.
C5_PaddedVoltageCommand ==
    C5_Datagram =>
        /\ Len(CmdEvents) >= 1 =>
              CmdEvents[1].text
                = vMWV \o <<" ", "5", ".", "0", "0", "0", "0", "0", "0">> \o CRLF
        /\ udpOut # << >> => Len(CmdEvents) >= 1

C5_Witness == C5_Datagram /\ Len(udpOut) = 1 /\ CmdEvents[1].rep = "regular"

\* t writes a setpoint: MWV:<value> or MWI:<value>, not the query with "?"
IsSetpointWrite(t) ==
    /\ StartsWith(t, vMWV) \/ StartsWith(t, vMWI)
    /\ ~StartsWith(t, vMWVq) /\ ~StartsWith(t, vMWIq)

\* C6: for a well-formed datagram with set = 0 no command of the cycle
\* writes a setpoint, the setpoints of the device stay what they were when
\* the commands of the cycle were sent, and the cycle ends with one packet.
C6_NoWriteWithoutSet ==
    (IsControl(taken) /\ taken.data.set = 0) =>
        /\ \A i \in 1..Len(wire) :
              /\ ~IsSetpointWrite(wire[i].text)
              /\ wire[i].dev.isp = dev.isp /\ wire[i].dev.usp = dev.usp
        /\ CycleOver => Len(udpOut) = 1

C6_Witness ==
    /\ IsControl(taken) /\ taken.data.set = 0
    /\ taken.data.voltage_setpoint # Micro(FALSE, 0, 0)
    /\ Len(udpOut) = 1 /\ Len(CmdEvents) = 5 /\ pc = "recvfrom"

\* the queries of a cycle, in their order
Queries == <<vMST \o CRLF, vMWIq \o CRLF, vMWVq \o CRLF, vMRI \o CRLF, vMRV \o CRLF>>
\* the number of setpoint writes that precede the queries of the cycle
Writes == IF taken.data.set # 0 THEN 2 ELSE 0

\* C7: after the setpoint writes, if any, the commands of a cycle are MST,
\* MWI:?, MWV:?, MRI, MRV in this order; every command is followed by the
\* outcome of its receive before the next one is sent; a packet is sent
\* only after the five queries and their receives.
C7_QueryOrder ==
    IsControl(taken) =>
        /\ Len(CmdEvents) <= Writes + 5
        /\ \A i \in 1..Len(CmdEvents) : i > Writes => CmdEvents[i].text = Queries[i - Writes]
        /\ \A j \in 1..Len(wire) : wire[j].ev = (IF j % 2 = 1 THEN "cmd" ELSE "recv")
        /\ udpOut # << >> => Len(wire) = 2 * (Writes + 5)

\* a cycle with a rejected setpoint write has sent its five queries
C7_Witness ==
    /\ IsControl(taken) /\ Writes = 2 /\ Len(udpOut) = 1
    /\ CmdEvents[2].rep = "nak" /\ CmdEvents[7].text = vMRV \o CRLF

\* the number held by the eight bytes bs of an int64_t, in micro-units
\* (units -1 stands for a number outside 32 bits)
FieldMicro(bs) ==
    LET ext == IF bs[4] >= 128 THEN 255 ELSE 0
        hi == IF bs[4] >= 128 THEN bs[4] - 256 ELSE bs[4]
    IN  IF \A i \in 5..8 : bs[i] = ext
        THEN IntMicro(hi * 16777216 + bs[3] * 65536 + bs[2] * 256 + bs[1])
        ELSE [neg |-> FALSE, units |-> 0 - 1, micro |-> 0]

\* the packet sent in this cycle
Sent == udpOut[1].buf
\* what was received in reply to the MST query of this cycle
MstReply == wire[2 * (Writes + 1)].text
MstPrefix == <<"#", "M", "S", "T", ":">>

\* C8 as stated: the status field of a response is the number of the
\* device's reply to the MST command of the same cycle (the status word the
\* device held then); when what was received is not an MST reply, no number
\* of another reply gets into the field, which stays cleared.
C8_StatusFromMstReply ==
    udpOut # << >> =>
        IF StartsWith(MstReply, MstPrefix)
        THEN Peek(Sent, 28, 4) = U32LE(CmdEvents[Writes + 1].dev.status)
        ELSE Peek(Sent, 28, 4) = <<0, 0, 0, 0>>

\* the value the device held for the i-th query of the cycle
Reported(i) ==
    LET d == CmdEvents[Writes + i].dev
    IN  CASE i = 2 -> d.isp [] i = 3 -> d.usp [] i = 4 -> d.irb [] i = 5 -> d.urb

\* C9 as stated: each value field of a response is round(x * 1e6) as a
\* signed 64-bit integer, x being the value the device reported for the
\* query of the field in this cycle, also beyond 2^31 micro-units.
C9_ValueFieldsRounded ==
    udpOut # << >> =>
        \A i \in 2..5 :
            CmdEvents[Writes + i].rep = "regular" =>
                FieldMicro(Peek(Sent, 28 + 4 + 8 * (i - 2), 8)) = RoundMicro(Reported(i))

\* C10: the packet sent is 64 bytes: an IP header of 5 words, a UDP header
\* and a payload that make the UDP length 44; the payload holds the status
\* in 4 bytes and then, in 8 bytes each, the current setpoint, the voltage
\* setpoint, the current and the voltage, shown by the fields holding what
\* the device regularly reported (numbers within 32 bits); every byte not
\* written in the cycle is zero: after the MST reply has been evaluated the
\* whole buffer but the status field is zero, and so is that field when
\* there was nothing to scan, and the bytes behind the packet are zero
\* when it is sent.
C10_ResponseLayout ==
    /\ (pc = "send" /\ step = "MWIq") =>
          /\ \A i \in 1..UDPBUFLEN : i \notin 29..32 => send_buffer[i] = 0
          /\ response[6] = NUL => Peek(send_buffer, 28, 4) = <<0, 0, 0, 0>>
    /\ udpOut # << >> =>
          /\ Len(Sent) = 64
          /\ Sent[1] = 69 /\ Peek(Sent, 2, 2) = <<64, 0>> /\ Peek(Sent, 24, 2) = <<0, 44>>
          /\ CmdEvents[Writes + 1].rep = "regular" =>
                Peek(Sent, 28, 4) = U32LE(CmdEvents[Writes + 1].dev.status)
          /\ \A i \in 2..5 :
                (CmdEvents[Writes + i].rep = "regular" /\ FitsInt32(RoundMicro(Reported(i))))
                    => FieldMicro(Peek(Sent, 32 + 8 * (i - 2), 8)) = RoundMicro(Reported(i))
          /\ \A i \in 65..UDPBUFLEN : send_buffer[i] = 0

\* a packet whose status field was not written in its cycle, sent from a
\* buffer that was not zero when the loop was entered
C10_Witness ==
    /\ Len(udpOut) = 1 /\ udp_counter > 65535
    /\ CmdEvents[Writes + 1].rep = "close"
    /\ Peek(Sent, 28, 4) = <<0, 0, 0, 0>> /\ Peek(Sent, 32, 8) # <<0, 0, 0, 0, 0, 0, 0, 0>>

RECURSIVE Rfc1071Sum(_)
\* RFC 1071: the ones'-complement sum of the 16-bit words of bs, the high
\* byte of a word first, a last odd byte padded with a zero byte, the carry
\* out of 16 bits added back in at every addition
Rfc1071Sum(bs) ==
    LET h == IF Len(bs) > 3 THEN 2 * (Len(bs) \div 4) ELSE 2
        t == IF Len(bs) > 3 THEN Rfc1071Sum(SubSeq(bs, 1, h)) ELSE 256 * bs[1] + bs[2]
    IN  IF bs = << >> THEN 0
        ELSE IF Len(bs) = 1 THEN 256 * bs[1]
        ELSE LET u == t + Rfc1071Sum(SubSeq(bs, h + 1, Len(bs)))
             IN  IF u > 65535 THEN u - 65535 ELSE u
\* the two bytes of the checksum of bs as they stand in a header
Rfc1071(bs) ==
    LET c == 65535 - Rfc1071Sum(bs) IN <<c \div 256, c % 256>>

\* C11 as stated: the IP header checksum of a packet sent is the RFC 1071
\* checksum of its 20 header bytes alone, the checksum field taken as zero.
C11_IpChecksumOverHeader ==
    udpOut # << >> =>
        Peek(Sent, 10, 2) = Rfc1071(Poke(Peek(Sent, 0, 20), 10, <<0, 0>>))

\* C12: the UDP checksum of a packet sent is the RFC 1071 checksum of the
\* pseudo-header (the source and destination address of the IP header, a
\* zero byte, protocol 17, UDP length 44) followed by the UDP header and
\* the payload as they are sent, the checksum field taken as zero.
C12_UdpChecksum ==
    udpOut # << >> =>
        Peek(Sent, 26, 2)
          = Rfc1071(Peek(Sent, 12, 8) \o <<0, 17, 0, 44>>
                      \o Poke(Peek(Sent, 20, 44), 6, <<0, 0>>))

\* a packet for the second sender with a payload that is not zero
C12_Witness ==
    /\ Len(udpOut) = 1 /\ udpOut[1].to = ClientB
    /\ Peek(Sent, 28, 4) # <<0, 0, 0, 0>> /\ Peek(Sent, 26, 2) # <<0, 0>>

\* C13: the value csum returns, stored as the machine stores it (low byte
\* first), is the RFC 1071 checksum of the first nbytes bytes of the
\* memory, for even and odd nbytes up to the size of the buffer; the two
\* foldings of csum lose no carry.
C13_CsumIsRfc1071 ==
    answer # 0 - 1 => U16LE(answer) = Rfc1071(Peek(ptr, 0, nbytes))

\* the sum of an odd number of bytes, almost the whole buffer, whose first
\* folding carries out of 16 bits
C13_Witness ==
    /\ answer # 0 - 1 /\ nbytes = UDPBUFLEN - 1 /\ ptr[1] = 1 /\ ptr[UDPBUFLEN] = 255
    /\ LET f == (WordSum(ptr, 0, nbytes) \div 65536) + (WordSum(ptr, 0, nbytes) % 65536)
       IN  f > 65535

\* C14 as stated: a packet is sent to the address and port the datagram of
\* the cycle came from; read as an IPv4 and a UDP header (fields of more
\* than one byte with the high byte first) its first 28 bytes carry version
\* 4, header length 5, total length 64, TTL 255, protocol 17, the bound
\* address of the responder as source, the sender's address as destination,
\* source port 16665, the sender's port as destination port, UDP length 44.
C14_HeadersAndDestination ==
    udpOut # << >> =>
        /\ udpOut[1].to = taken.from
        /\ Sent[1] = 4 * 16 + 5
        /\ 256 * Sent[3] + Sent[4] = 64
        /\ Sent[9] = 255 /\ Sent[10] = 17
        /\ Peek(Sent, 12, 4) = udp_server.addr
        /\ Peek(Sent, 16, 4) = taken.from.addr
        /\ 256 * Sent[21] + Sent[22] = 16665
        /\ Peek(Sent, 22, 2) = taken.from.port
        /\ 256 * Sent[25] + Sent[26] = 44

\* C18 as stated: once a well-formed datagram has been taken, the loop
\* gets back to the next receive attempt whatever the device does: nothing
\* the device does crashes the process, and in the middle of a cycle the
\* process always has its next step to take: the send and the sendto are
\* never waited for, and the receive returns (with data, with the end of
\* the connection, with an error or on a timeout), so that the process
\* cannot be blocked for ever.
C18_LoopReturnsToIdle ==
    IsControl(taken) =>
        /\ pc # "crashed"
        /\ pc = "recv" => RecvLens # {}

(***************************************************************************)
(* Properties of the OPC UA server and of both processes                   *)
(***************************************************************************)
\* the sends of the callback in progress, or of the last one
UaCmdEvents == SelectSeq(ua_wire, LAMBDA e : e.ev = "cmd")
\* a send that did not accept the whole command
Torn(w) == \E i \in 1..Len(w) : w[i].rep = "torn"

\* C15: a send that does not accept the whole command is the last thing
\* the process does on its TCP connection: the process has terminated, no
\* receive and no further command follow it, no step of the process is
\* possible any more, the UDP responder has sent no response for the
\* datagram in progress and the OPC UA callback has returned nothing.
C15_TornSendTerminates ==
    /\ Torn(wire) =>
          /\ pc = "died" /\ wire[Len(wire)].rep = "torn" /\ udpOut = << >>
          /\ ~ENABLED Next
    /\ Torn(ua_wire) =>
          /\ ua_pc = "died" /\ ua_wire[Len(ua_wire)].rep = "torn"
          /\ ua_result = NoResult
          /\ ~ENABLED OpcNext

\* a torn send in the middle of a UDP cycle, after a setpoint write
C15_Witness ==
    /\ Torn(wire) /\ Len(wire) = 5 /\ taken.data.set # 0 /\ wire[5].n = Len(command) - 1

\* C19: on the TCP connection of either process sends and receives
\* alternate, beginning with a send: a command is sent only when every
\* earlier command has had its receive, a receive is made only for the one
\* command sent before it, and between two UDP cycles or two callbacks
\* nothing is outstanding.
C19_OneCommandOutstanding ==
    /\ \A j \in 1..Len(wire) : wire[j].ev = (IF j % 2 = 1 THEN "cmd" ELSE "recv")
    /\ pc = "send" => Len(wire) % 2 = 0
    /\ pc = "recv" => Len(wire) % 2 = 1
    /\ pc \in {"while", "recvfrom", "sendto", "exited"} => Len(wire) % 2 = 0
    /\ \A j \in 1..Len(ua_wire) : ua_wire[j].ev = (IF j % 2 = 1 THEN "cmd" ELSE "recv")
    /\ ua_pc = "send" => Len(ua_wire) = 0
    /\ ua_pc = "recv" => Len(ua_wire) = 1
    /\ ua_pc \in {"run", "exited"} => Len(ua_wire) \in {0, 2}

\* the second callback of the server, a write, has had its one receive
\* although the first one got no reply in time
C19_Witness ==
    /\ ua_calls = 2 /\ ua_pc = "run" /\ Len(ua_wire) = 2 /\ ua_op.kind = "write"
    /\ ua_faults.kind = "late" /\ ua_wire[1].rep = "regular"

\* the variables whose read callbacks there are
IsRead == ua_op.kind = "read" /\ ua_pc = "run" /\ Len(ua_wire) = 2

\* C16 as stated: a read callback of the OPC UA server whose receive got
\* no bytes (recv returned 0 or -1) returns the uncertain status and no
\* value, whatever exchanges went before.
C16_ReadWithoutReplyUncertain ==
    (IsRead /\ ua_wire[2].n <= 0) =>
        ua_result.status = "Uncertain" /\ ~ua_result.hasValue

\* the marker of the reply to the command of a read callback
Expected(op) ==
    CASE op.var \in {"DeviceStatus", "OutputOn"} -> <<"#">> \o vMST \o <<":">>
      [] op.var = "ModeSFP" -> <<"#">> \o vUPMODEw
      [] OTHER -> Marker(op)

\* C17 as stated: a read callback of the OPC UA server that received a
\* reply not beginning with the marker of its command returns the
\* uncertain status and no value, for every variable.
C17_ReadOfOtherReplyUncertain ==
    (IsRead /\ ua_wire[2].n > 0 /\ ~StartsWith(ua_wire[2].text, Expected(ua_op))) =>
        ua_result.status = "Uncertain" /\ ~ua_result.hasValue

\* C20 as stated: the process dies of too many registers only when the
\* configuration holds more than maxreg = 40 <register> elements; a list
\* of 40 or fewer is loaded and the server runs.
C20_CapacityIsMaxreg ==
    (ua_pc = "died" /\ ua_conn = "open") => Len(registers) > maxreg

\* the register numbers of the table are pairwise distinct
Distinct(t) == \A i, j \in 1..Len(t) : t[i] = t[j] => i = j

\* C21: a configuration that names a register number twice is rejected with
\* a fatal error at start-up: whenever the server has finished loading and
\* goes on to serve (or is past that point), the numbers of the register
\* table are pairwise distinct, and no list with a repeated number gets
\* that far
C21_DuplicateRejected ==
    ua_pc = "run" => (Distinct(RegNr) /\ Distinct(registers))

\* C22: when the configuration holds more registers than the table has
\* room for, the process ends with the overflow error before any TCP
\* connection to the device is attempted: in the state the overflow error
\* has ended the process in, no connection has been made
C22_OverflowBeforeConnect ==
    (ua_pc = "died" /\ Len(registers) > maxreg /\ loopindex >= maxreg)
        => ua_conn = "none"

\* the second callback of the server, readRegister, has returned, the
\* first one was writeRegister for the same register, and the device has
\* reacted regularly to both: it holds the value written and has answered
\* the MRG command
ReadAfterWrite ==
    /\ ua_calls = 2 /\ ua_pc = "run" /\ ua_faults.n = 0
    /\ ua_op.kind = "read" /\ ua_op.var = "Register"
    /\ Len(ua_wire) = 2 /\ ua_wire[1].rep = "regular"
    /\ dev.regs[ua_op.index] # DeviceStart.regs[ua_op.index]

\* C23: against a device that stores the value of MWG:<n>:<value> and
\* answers MRG:<n> with #MRG:<n>:<value>, writeRegister for a register
\* followed by readRegister for the same register returns Good with the
\* value written, for every register of the table
C23_RegisterRoundTrip ==
    ReadAfterWrite =>
        /\ ua_result.status = "Good" /\ ua_result.hasValue
        /\ RoundMicro(ua_result.d) = Micro(FALSE, 3, 250000)
        /\ RoundMicro(ua_result.d) = RoundMicro(dev.regs[ua_op.index])

\* the callback has returned to the server
Returned == ua_pc \in {"run", "exited"} /\ ua_calls > 0

\* the data of a set are not a scalar value of the declared type of the
\* variable: boolean for OutputOn, MReset and SFP mode, double for the
\* setpoints and the registers
BadInput(op) ==
    /\ op.kind = "write"
    /\ \/ ~op.data.hasValue
       \/ ~op.data.isScalar
       \/ ~op.data.data
       \/ op.var \in {"OutputOn", "MReset", "ModeSFP"} /\ op.data.type # "BOOLEAN"
       \/ op.var \in {"CurrentSetpoint", "VoltageSetpoint", "Register"}
              /\ op.data.type # "DOUBLE"
GoodInput(op) == op.kind = "write" /\ ~BadInput(op)

\* C24: a set whose input has no value, is not a scalar, is not of the
\* declared type of the variable or has no data returns a status that is
\* not Good and sends nothing: once such a callback has been entered it has
\* returned, nothing has gone over the connection, and the step that
\* served it has left the device, the connection, the bytes in flight and
\* the command buffer as they were
C24_InvalidSetRejected ==
    [][BadInput(ua_op') =>
          /\ ua_pc' \in {"run", "exited"}
          /\ ua_result'.status = "Uncertain" /\ ~ua_result'.hasValue
          /\ ua_wire' = << >>
          /\ ua_calls' # ua_calls =>
                /\ dev' = dev /\ ua_conn' = ua_conn /\ ua_tcpIn' = ua_tcpIn
                /\ ua_late' = ua_late /\ ua_command' = ua_command]_vars

\* a set of a double variable with a scalar of another type has been
\* turned down after an earlier callback had talked to the device
C24_Witness ==
    /\ BadInput(ua_op) /\ ua_op.var = "CurrentSetpoint" /\ ua_op.data.type = "BOOLEAN"
    /\ ua_calls = 2 /\ ua_pc = "run" /\ ua_result.status = "Uncertain"
    /\ ua_command # << >>

\* the texts of the commands sent in the callback in progress, or in the
\* last one
UaSentTexts == [i \in 1..Len(UaCmdEvents) |-> UaCmdEvents[i].text]

\* C25: a set of OutputOn with a boolean sends exactly one command, MON
\* for true and MOFF for false, and a set of SFP mode sends exactly one
\* command, UPMODE:SFP for true and UPMODE:NORMAL for false: the command
\* built is that one, nothing else is ever sent in the callback, and when
\* the callback has returned it has been sent once
C25_BooleanSetSendsOneCommand ==
    (GoodInput(ua_op) /\ ua_op.var \in {"OutputOn", "ModeSFP"}) =>
        LET text == CASE ua_op.var = "OutputOn" /\ ua_op.flag -> <<"M", "O", "N">>
                      [] ua_op.var = "OutputOn" /\ ~ua_op.flag -> <<"M", "O", "F", "F">>
                      [] ua_op.var = "ModeSFP" /\ ua_op.flag ->
                            <<"U", "P", "M", "O", "D", "E", ":", "S", "F", "P">>
                      [] OTHER ->
                            <<"U", "P", "M", "O", "D", "E", ":", "N", "O", "R", "M", "A", "L">>
        IN  /\ ua_command = text \o <<"\r", "\n">>
            /\ UaSentTexts \in {<< >>, <<text \o <<"\r", "\n">>>>}
            /\ ua_pc = "send" <=> UaSentTexts = << >>
            /\ Returned => Len(UaSentTexts) = 1

\* OutputOn has been set to false and SFP mode to true, and each callback
\* has returned after its one command
C25_Witness ==
    /\ Returned /\ ua_calls = 2 /\ GoodInput(ua_op)
    /\ ua_op.var = "ModeSFP" /\ ua_op.flag /\ dev.sfp
    /\ dev.status % 2 = 0 /\ Len(UaSentTexts) = 1

\* C26: a set of MReset to true sends exactly one MRESET command, a set
\* of MReset to false sends none and returns Good, and a read of MReset
\* returns Good with the value false without sending anything, whatever
\* was set before and whatever state the device is in
C26_MResetIsMomentary ==
    /\ (GoodInput(ua_op) /\ ua_op.var = "MReset" /\ ua_op.flag) =>
          /\ UaSentTexts \in {<< >>, <<<<"M", "R", "E", "S", "E", "T", "\r", "\n">>>>}
          /\ ua_pc = "send" <=> UaSentTexts = << >>
          /\ Returned => Len(UaSentTexts) = 1
    /\ (GoodInput(ua_op) /\ ua_op.var = "MReset" /\ ~ua_op.flag) =>
          /\ Returned /\ ua_wire = << >> /\ ua_result.status = "Good"
    /\ (ua_op.kind = "read" /\ ua_op.var = "MReset") =>
          /\ Returned /\ ua_wire = << >>
          /\ ua_result.status = "Good" /\ ua_result.hasValue /\ ua_result.b = FALSE

\* MReset is read after it was set to true and the device has taken the
\* MRESET command
C26_Witness ==
    /\ ua_op.kind = "read" /\ ua_op.var = "MReset" /\ ua_calls = 2
    /\ ua_command = <<"M", "R", "E", "S", "E", "T", "\r", "\n">>
    /\ ua_faults.n = 0 /\ ua_result.status = "Good"

\* the receives of the callback in progress, or of the last one
UaRecvEvents == SelectSeq(ua_wire, LAMBDA e : e.ev = "recv")

\* C27: every get and set of the OPC UA server makes at most one exchange
\* with the device, one send followed by one receive, and the result of a
\* get of a variable of the device comes from the exchange of that get
\* alone: it is what the callback makes of the bytes received in it, with
\* nothing in the receive buffer that an earlier callback has received
C27_OneFreshExchange ==
    /\ Len(UaCmdEvents) <= 1 /\ Len(UaRecvEvents) <= 1
    /\ (Returned /\ ua_op.kind = "read" /\ ua_op.var # "MReset") =>
          /\ Len(ua_wire) = 2 /\ ua_wire[1].ev = "cmd" /\ ua_wire[2].ev = "recv"
          /\ ua_result \in Outcome(ua_op,
                                   UaTerminated(Fill(BUFSIZE, NUL), ua_wire[2].text,
                                                ua_wire[2].n),
                                   ua_wire[2].n)

\* the queries of the device
IsQueryCommand(cmd) ==
    \/ cmd \in {<<"M", "S", "T", "\r", "\n">>, <<"M", "R", "I", "\r", "\n">>,
                <<"M", "R", "V", "\r", "\n">>, <<"M", "W", "I", ":", "?", "\r", "\n">>,
                <<"M", "W", "V", ":", "?", "\r", "\n">>,
                <<"U", "P", "M", "O", "D", "E", "\r", "\n">>}
    \/ /\ StartsWith(cmd, <<"M", "R", "G", ":">>) /\ EndsWith(cmd, <<"\r", "\n">>)
       /\ Len(cmd) > 6
       /\ \A i \in 5..(Len(cmd) - 2) : IsDigit(cmd[i])

\* C28: no get sends a command that changes the device: the commands the
\* read callbacks send are the queries MST, MRI, MRV, MWI:?, MWV:?, UPMODE
\* and MRG:<n>, and no step of a read callback changes the setpoints, the
\* output state, the mode or the registers of the device
C28_GetsOnlyQuery ==
    [][ua_op'.kind = "read" =>
          /\ \A i \in 1..Len(UaCmdEvents') : IsQueryCommand(UaCmdEvents[i]'.text)
          /\ ua_pc' = "send" => IsQueryCommand(ua_command')
          /\ ua_op.kind = "read" => dev' = dev]_vars

\* the register 123 has been read after the SFP mode, and the device has
\* answered both
C28_Witness ==
    /\ Returned /\ ua_calls = 2 /\ ua_op.kind = "read" /\ ua_op.var = "Register"
    /\ ua_op.index = 123 /\ Len(ua_wire) = 2 /\ ua_wire[1].rep = "regular"
    /\ ua_wire[2].n > 0 /\ dev = DeviceStart

\* C30: a set with valid input of OutputOn, SFP mode, the current
\* setpoint or the voltage setpoint returns Good only when the device has
\* acknowledged the command: when no reply came or the reply was #NAK the
\* result is not Good
C30_SetGoodOnlyWhenAcknowledged ==
    (/\ Returned /\ GoodInput(ua_op)
     /\ ua_op.var \in {"OutputOn", "ModeSFP", "CurrentSetpoint", "VoltageSetpoint"}
     /\ ua_result.status = "Good") =>
        /\ Len(ua_wire) = 2 /\ ua_wire[2].ev = "recv"
        /\ ua_wire[2].n > 0
        /\ StartsWith(ua_wire[2].text, <<"#", "A", "K">>)

\* C29: when the shutdown flag is set while the UDP responder is inside a
\* cycle, the cycle runs to completion and the response for the datagram
\* in progress is sent: a receive from the device the cycle is waiting in
\* returns (with data, with the end of the connection, with an error or
\* on a timeout), so that the exchanges in flight finish.  The flag is
\* tested at the top of the loop only: the process has left the loop only
\* with the flag set and the cycle of the last datagram complete, its
\* response sent.  After that the process has terminated and takes no
\* further step: no command and no response
C29_ShutdownCompletesCycle ==
    /\ (~running /\ pc = "recv") => RecvLens # {}
    /\ pc = "exited" =>
          /\ ~running
          /\ IsControl(taken) => Len(udpOut) = 1 /\ udpOut[1].to = taken.from
          /\ ~ENABLED (LoopTest \/ RecvFromNothing \/ RecvFrom \/ TcpSend
                          \/ TcpRecv \/ SendTo)

(***************************************************************************)
(* Further properties of the two processes                                 *)
(***************************************************************************)
\* the device round trips since the last datagram was taken: the commands
\* sent whose receive has returned
RoundTrips ==
    Cardinality({j \in 1..(Len(wire) - 1) :
                    wire[j].ev = "cmd" /\ wire[j + 1].ev = "recv"})

\* C31 as stated: between the receive of a well-formed datagram with
\* set = 0 and the transmission of its response there are exactly four
\* device round trips, and exactly six when set # 0.
C31_FourRoundTrips ==
    (IsControl(taken) /\ udpOut # << >>) =>
        RoundTrips = (IF taken.data.set = 0 THEN 4 ELSE 6)

\* C31 as amended: between the receive of a well-formed datagram with
\* set = 0 and the transmission of its response there are exactly five
\* device round trips (MST, MWI:?, MWV:?, MRI, MRV), and exactly two more,
\* seven, when set # 0; no round trip follows the response.
C31_FiveRoundTrips ==
    IsControl(taken) =>
        /\ RoundTrips <= (IF taken.data.set = 0 THEN 5 ELSE 7)
        /\ (udpOut # << >> \/ pc = "sendto") =>
              /\ RoundTrips = (IF taken.data.set = 0 THEN 5 ELSE 7)
              /\ Len(wire) = 2 * RoundTrips

\* the responses to a datagram with set = 0 and to one with set # 0 have
\* been sent, the second after seven round trips
C31_Witness ==
    /\ dgrams = 2 /\ IsControl(taken) /\ taken.data.set # 0
    /\ Len(udpOut) = 1 /\ RoundTrips = 7 /\ pc = "while"

\* what the last callback has received
UaReply == ua_wire[2].text
\* the text before the value in a reply #MRG:<n>:<value>
MrgEcho(n) == <<"#", "M", "R", "G", ":">> \o NatText(n) \o <<":">>
\* the decimal number that follows the second colon of the reply
MrgValue(n) ==
    LET sc == ScanDouble(SubSeq(UaReply, Len(MrgEcho(n)) + 1, Len(UaReply)))
    IN  Dbl(sc.neg, sc.units, sc.frac)

\* C32 as stated: readRegister for the register n that receives a reply
\* of the form #MRG:<n>:<value> returns Good with exactly the decimal
\* value that follows the second colon, whatever the number of digits of
\* n (one for register 5, two for 10, three for 123).
C32_RegisterValueAfterSecondColon ==
    (/\ Returned /\ ua_op.kind = "read" /\ ua_op.var = "Register"
     /\ Len(ua_wire) = 2 /\ ua_wire[2].n > 0
     /\ StartsWith(UaReply, MrgEcho(ua_op.index))) =>
        /\ ua_result.status = "Good" /\ ua_result.hasValue
        /\ ua_result.d = MrgValue(ua_op.index)

\* C33: writeRegister with valid input sends exactly one command
\* MWG:<n>:<value>, the value in fixed notation with six decimals, and
\* returns Good exactly when more than 3 bytes were received in reply and
\* BadCommunicationError otherwise (timeout, closed connection, a reply of
\* at most 3 bytes); a #NAK:<code> reply, longer than 3 bytes, is accepted
\* as success
C33_WriteRegisterByReplyLength ==
    (GoodInput(ua_op) /\ ua_op.var = "Register") =>
        LET text == <<"M", "W", "G", ":">> \o NatText(ua_op.index)
                        \o <<":", "3", ".", "2", "5", "0", "0", "0", "0", "\r", "\n">>
        IN  /\ ua_op.val = Micro(FALSE, 3, 250000)
            /\ ua_command = text
            /\ UaSentTexts \in {<< >>, <<text>>}
            /\ Returned =>
                  /\ Len(ua_wire) = 2 /\ ua_wire[1].ev = "cmd" /\ ua_wire[2].ev = "recv"
                  /\ ~ua_result.hasValue
                  /\ ua_result.status
                        = (IF ua_wire[2].n > 3 THEN "Good" ELSE "BadCommunicationError")

\* a register write answered with #NAK:05 has returned Good
C33_Witness ==
    /\ Returned /\ GoodInput(ua_op) /\ ua_op.var = "Register"
    /\ ua_wire[1].rep = "nak" /\ StartsWith(ua_wire[2].text, <<"#", "N", "A", "K">>)
    /\ ua_result.status = "Good"

\* C34: the index at which TcpSendReceive stores the terminating NUL is
\* within 0..BUFSIZE-1 for every outcome of recv, in both processes: the
\* responder stores at response[reclen] after every recv, reclen being
\* recv's result converted to unsigned int; the OPC UA server stores at
\* response[reclen] only when reclen > 0; both buffers keep their size
C34_NulIndexInsideBuffer ==
    /\ \A i \in 1..Len(wire) :
          wire[i].ev = "recv" => wire[i].n \in 0..(BUFSIZE - 1)
    /\ \A i \in 1..Len(ua_wire) :
          (ua_wire[i].ev = "recv" /\ ua_wire[i].n > 0) => ua_wire[i].n <= BUFSIZE - 1
    /\ pc # "off" => Len(response) = BUFSIZE
    /\ ua_pc # "off" => Len(ua_response) = BUFSIZE

\* C35: once the signal handler has set running to false, the responder
\* receives at most one further datagram, in the recvfrom of the iteration
\* already begun, and transmits at most one further response: the flag stays
\* false, recvfrom is never reached again, a datagram is taken only by the
\* pending recvfrom, a response is sent only by the sendto that ends the
\* cycle, and the loop test that follows leaves the loop
C35_AtMostOneCycleAfterStop ==
    [][~running =>
          /\ ~running'
          /\ pc' # "recvfrom"
          /\ dgrams' # dgrams => (pc = "recvfrom" /\ dgrams' = dgrams + 1)
          /\ (udpOut' # udpOut /\ udpOut' # << >>) =>
                (pc = "sendto" /\ pc' = "while" /\ Len(udpOut') = 1 /\ dgrams' = dgrams)
          /\ pc = "while" => (pc' = "exited" /\ udpOut' = udpOut /\ dgrams' = dgrams)
          /\ pc = "exited" => pc' = "exited"]_vars

\* the flag is false and the response of the cycle in progress is about to
\* be sent
C35_Witness ==
    /\ ~running /\ pc = "sendto" /\ dgrams = 1 /\ udpOut = << >>

\* the answer of the device to the command of the callback
\* that has returned
OwnAnswer == DeviceAnswer(ua_wire[1].dev, ua_wire[1].text)

\* C36: on the connection of the OPC UA server, where the only irregular
\* reaction of the device is a reply that arrives after the receive has
\* timed out, a get callback whose own command is answered regularly and
\* that reports a value as valid reports the value of the reply to its own
\* command: its result is what the callback makes of the answer of the
\* device to the command it has sent
C36_ReplyPairedWithCommand ==
    (/\ Returned /\ ua_op.kind = "read" /\ ua_op.var # "MReset"
     /\ ua_faults.kind \in {"none", "late"}
     /\ Len(ua_wire) = 2 /\ ua_wire[1].rep = "regular"
     /\ ua_result.status = "Good" /\ ua_result.hasValue) =>
        ua_result \in Outcome(ua_op,
                              UaTerminated(Fill(BUFSIZE, NUL), OwnAnswer, Len(OwnAnswer)),
                              Len(OwnAnswer))

\* a response has been sent in a cycle with set != 0 in which the device
\* has acknowledged both setpoint writes and answered the two setpoint
\* queries, the setpoints of the datagram being within 32 bits of
\* micro-units
SetCycleDone ==
    /\ udpOut # << >> /\ IsControl(taken) /\ taken.data.set # 0
    /\ \A i \in {1, 2, 4, 5} : CmdEvents[i].rep = "regular"
    /\ wire[2].text = AKReply /\ wire[4].text = AKReply
    /\ FitsInt32(taken.data.current_setpoint) /\ FitsInt32(taken.data.voltage_setpoint)
\* the two setpoint fields of the response
SentCurrentSetpoint == FieldMicro(Peek(Sent, 32, 8))
SentVoltageSetpoint == FieldMicro(Peek(Sent, 40, 8))
\* the setpoints of the device once it has taken the writes of the cycle
\* (MWV first, MWI second)
WrittenVoltage == DeviceAfter(CmdEvents[1].dev, CmdEvents[1].text).usp
WrittenCurrent == DeviceAfter(CmdEvents[2].dev, CmdEvents[2].text).isp

C38_IdCountsDatagrams ==
    /\ udp_counter = dgrams
    /\ udpOut # << >> => Peek(Sent, 4, 2) = U16LE(dgrams % 65536)

\* C39: while the register configuration is loaded, every store into the
\* table RegNr, and every node context RegNr+loopindex, uses an index
\* within 0..maxreg-1, for lists of any length: the entries stored are
\* those at the indices below loopindex, never more than maxreg, and the
\* loop goes on to a further store only with loopindex below maxreg
C39_RegNrIndexInRange ==
    ua_pc \in {"load", "run", "died"} =>
        /\ Len(RegNr) = loopindex
        /\ Len(RegNr) <= maxreg
        /\ ua_pc = "load" => loopindex \in 0..(maxreg - 1)

\* a list longer than maxreg: the table is full and the server has died
\* before a further store
C39_Witness ==
    /\ Len(registers) > maxreg /\ ua_pc = "died"
    /\ Len(RegNr) = maxreg /\ loopindex = maxreg

====
